---- MODULE Spec2Model ----
(***************************************************************************)
(* Certificate / CA lifecycle and ACME issuance of                         *)
(* middlewared/plugins/crypto.py: the certificate and CA stores, the       *)
(* CA-rooted serial allocator, the creation strategies and the ACME order  *)
(* orchestration with its renewal run.                                     *)
(***************************************************************************)
EXTENDS Integers, Sequences, FiniteSets, TLC

VARIABLES
    cas,        \* rows of system.certificateauthority
    certs,      \* rows of system.certificate
    caNext,     \* next primary key of system.certificateauthority
    certNext,   \* next primary key of system.certificate
    jobs,       \* certificate.create jobs submitted by ca_sign_csr, not yet run
    lastAlloc,  \* the most recent call of get_serial_for_certificate and its caller
    pc,         \* where each running handler stands
    loc,        \* the local variables of each running handler
    locks,      \* the job locks that are held
    regs,       \* rows of the ACME registrations (acme.registration)
    regNext,    \* next primary key of the ACME registrations
    now         \* the current day

storeVars == <<cas, certs, caNext, certNext>>
procVars == <<pc, loc, locks>>
acmeVars == <<regs, regNext, now>>
vars == <<cas, certs, caNext, certNext, jobs, lastAlloc, pc, loc, locks, regs, regNext, now>>

-----------------------------------------------------------------------------
(* Record kinds, crypto.py lines 22-27.                                    *)
CA_TYPE_EXISTING == 1
CA_TYPE_INTERNAL == 2
CA_TYPE_INTERMEDIATE == 4
CERT_TYPE_EXISTING == 8
CERT_TYPE_INTERNAL == 16
CERT_TYPE_CSR == 32

(* Python's None for a foreign key (primary keys start at 1) and for a     *)
(* serial (serial numbers are never negative).                             *)
NoId == 0
NoSerial == -1

-----------------------------------------------------------------------------
(* Bounds of the exploration.                                              *)
MaxCAs == 2          \* CA rows ever inserted
MaxCerts == 2        \* certificate rows ever inserted without ACME

(* Values of random.getrandbits(24) that are explored, and the serial      *)
(* numbers carried by the PEM blobs that are offered for import.           *)
RandSerials == {3, 9}
PemSerials == {5, 7}

-----------------------------------------------------------------------------
(* Store helpers.                                                          *)

Max(S) == CHOOSE x \in S : \A y \in S : y <= x

\* CRUDService._get_instance on system.certificateauthority
ca_get_instance(id) == CHOOSE r \in cas : r.id = id

\* the filter of _validate_common_attributes for data['signedby']: an
\* existing CA whose certificate and private key are both non-empty
valid_signing_ca(id) == \E r \in cas : r.id = id /\ r.certificate /\ r.privatekey

-----------------------------------------------------------------------------
(* Serial allocator: CertificateAuthorityService.get_serial_for_certificate *)

\* (variant: the certificates signed by the CA are not collected)
cert_serials_none(ca_id) == {}

\* cert_serials(ca_id): serials of the certificates whose signedby is ca_id
cert_serials(ca_id) == {c.serial : c \in {x \in certs : x.signedby = ca_id}}

\* (variant: the walk stops at the CAs the root signed itself)
child_serials_shallow(ca_id) ==
    {x.serial : x \in {y \in cas : y.signedby = ca_id}}
        \cup cert_serials(ca_id) \cup {ca_get_instance(ca_id).serial}

\* child_serials(ca_id): post-order walk over the CAs signed by ca_id
RECURSIVE child_serials(_)
child_serials(ca_id) ==
    LET children == {x \in cas : x.signedby = ca_id}
        below == UNION {child_serials(child.id) : child \in children}
    IN  below \cup cert_serials(ca_id) \cup {ca_get_instance(ca_id).serial}

\* (variant: the serials are gathered from the CA that was asked about)
get_serial_for_certificate_below(ca_id) ==
    Max(cert_serials(ca_id) \cup child_serials(ca_id)) + 1

RECURSIVE get_serial_for_certificate(_)
get_serial_for_certificate(ca_id) ==
    LET ca_data == ca_get_instance(ca_id)
    IN  IF ca_data.signedby # NoId
        THEN get_serial_for_certificate(ca_data.signedby)
        ELSE LET ca_signed_certs == cert_serials(ca_id) \cup child_serials(ca_id)
             IN  IF ca_signed_certs = {}
                 THEN ca_data.serial + 1
                 ELSE Max(ca_signed_certs) + 1

\* the top-level CA the allocator ascends to
RECURSIVE root_of(_)
root_of(ca_id) ==
    LET ca_data == ca_get_instance(ca_id)
    IN  IF ca_data.signedby # NoId THEN root_of(ca_data.signedby) ELSE ca_id

-----------------------------------------------------------------------------
(* Rows.                                                                   *)

CARow(id, type, serial, signedby, key) ==
    [id |-> id, type |-> type, serial |-> serial, signedby |-> signedby,
     certificate |-> TRUE, privatekey |-> key]

\* a row of system.certificate that is not ACME-managed.  certificate tells
\* whether a certificate body is stored; CSR is the list of names the stored
\* CSR asks for (empty: no CSR); common and san are the subject columns
CertRow(id, type, serial, signedby, hasCert, common, san) ==
    [id |-> id, type |-> type, serial |-> serial, signedby |-> signedby,
     certificate |-> hasCert,
     CSR |-> IF hasCert THEN <<>> ELSE <<common>> \o san,
     common |-> common, san |-> san,
     acme |-> NoId, domains_authenticators |-> <<>>, expire |-> 0, renew_days |-> 0,
     body |-> IF hasCert THEN serial ELSE NoSerial,   \* serial inside the stored PEM
     acme_uri |-> NoSerial, chain |-> FALSE]

\* the rows of the signing tree of a top-level CA, found by following each
\* row's signedby upwards: <<table, id, serial>>
TreeRows(root) ==
    {<<"ca", k.id, k.serial>> : k \in {x \in cas : root_of(x.id) = root}}
        \cup {<<"cert", c.id, c.serial>> :
                c \in {x \in certs : x.signedby # NoId /\ root_of(x.signedby) = root}}

TreeSerials(root) == {row[3] : row \in TreeRows(root)}

NoAlloc == [by |-> "none", ca |-> NoId, root |-> NoId, tree |-> {}, serial |-> NoSerial]

\* the call get_serial_for_certificate(ca_id) made by handler `by`: the rows
\* stored under the root at that moment and the serial returned
Alloc(by, ca_id) ==
    [by |-> by, ca |-> ca_id, root |-> root_of(ca_id), tree |-> TreeRows(root_of(ca_id)),
     serial |-> get_serial_for_certificate(ca_id)]

\* the handlers that can be in progress at once: two certificate.create
\* jobs, two certificateauthority.create calls, one renew_certs run and one
\* certificate.delete job
CertJobs == {"create1", "create2"}
CaCalls == {"cacreate1", "cacreate2"}
RenewRuns == {"renew", "renew_boot"}   \* the daily firing and the run at start
Procs == CertJobs \cup CaCalls \cup RenewRuns \cup {"delete", "update", "query"}

Idle == [op |-> "none"]

Init ==
    /\ cas = {}
    /\ certs = {}
    /\ caNext = 1
    /\ certNext = 1
    /\ jobs = <<>>
    /\ lastAlloc = NoAlloc
    /\ pc = [p \in Procs |-> "idle"]
    /\ loc = [p \in Procs |-> Idle]
    /\ locks = {}
    /\ regs = {}
    /\ regNext = 1
    /\ now = 0

-----------------------------------------------------------------------------
(* CertificateAuthorityService.do_create, one action per create_type.      *)

\* CA_CREATE_INTERNAL: __create_internal, serial = random.getrandbits(24)
CA_CREATE_INTERNAL(s) ==
    /\ cas' = cas \cup {CARow(caNext, CA_TYPE_INTERNAL, s, NoId, TRUE)}
    /\ caNext' = caNext + 1
    /\ UNCHANGED <<certs, certNext, jobs, lastAlloc, procVars, acmeVars>>

\* CA_CREATE_IMPORTED: __create_imported_ca, serial read from the PEM; the
\* schema keeps signedby and an optional private key
CA_CREATE_IMPORTED(s, signedby, key) ==
    /\ signedby # NoId => valid_signing_ca(signedby)
    /\ cas' = cas \cup {CARow(caNext, CA_TYPE_EXISTING, s, signedby, key)}
    /\ caNext' = caNext + 1
    /\ UNCHANGED <<certs, certNext, jobs, lastAlloc, procVars, acmeVars>>

\* CA_CREATE_INTERMEDIATE: __create_intermediate_ca
CA_CREATE_INTERMEDIATE(signedby) ==
    /\ valid_signing_ca(signedby)
    /\ LET serial == get_serial_for_certificate(signedby)
       IN  cas' = cas \cup {CARow(caNext, CA_TYPE_INTERMEDIATE, serial, signedby, TRUE)}
    /\ lastAlloc' = Alloc("CA_CREATE_INTERMEDIATE", signedby)
    /\ caNext' = caNext + 1
    /\ UNCHANGED <<certs, certNext, jobs, procVars, acmeVars>>

-----------------------------------------------------------------------------
(* CertificateService.do_create (a job under lock cert_create), one action *)
(* per create_type, run from validation to datastore.insert.               *)

\* CERTIFICATE_CREATE_INTERNAL: __create_internal
CERTIFICATE_CREATE_INTERNAL(signedby, common) ==
    /\ "cert_create" \notin locks
    /\ valid_signing_ca(signedby)
    /\ LET cert_serial == get_serial_for_certificate(signedby)
       IN  certs' = certs \cup
               {CertRow(certNext, CERT_TYPE_INTERNAL, cert_serial, signedby, TRUE, common, <<>>)}
    /\ lastAlloc' = Alloc("CERTIFICATE_CREATE_INTERNAL", signedby)
    /\ certNext' = certNext + 1
    /\ UNCHANGED <<cas, caNext, jobs, procVars, acmeVars>>

\* CERTIFICATE_CREATE: __create_certificate, every subject field and the
\* serial are read from the supplied PEM; type and signedby are the caller's
CERTIFICATE_CREATE(s, signedby, type, common) ==
    /\ "cert_create" \notin locks
    /\ signedby # NoId => valid_signing_ca(signedby)
    /\ certs' = certs \cup {CertRow(certNext, type, s, signedby, TRUE, common, <<>>)}
    /\ certNext' = certNext + 1
    /\ UNCHANGED <<cas, caNext, jobs, lastAlloc, procVars, acmeVars>>

\* CERTIFICATE_CREATE_CSR: __create_csr, no certificate body, no serial
CERTIFICATE_CREATE_CSR(common, san) ==
    /\ "cert_create" \notin locks
    /\ certs' = certs \cup {CertRow(certNext, CERT_TYPE_CSR, NoSerial, NoId, FALSE, common, san)}
    /\ certNext' = certNext + 1
    /\ UNCHANGED <<cas, caNext, jobs, lastAlloc, procVars, acmeVars>>

\* CertificateAuthorityService.__ca_sign_csr: the serial is computed here and
\* the signed certificate is handed to certificate.create, which returns the
\* id of a job that has not run yet
ca_sign_csr(ca_id, csr_cert_id) ==
    /\ \E ca_data \in cas : ca_data.id = ca_id /\ ca_data.privatekey
    /\ \E csr_cert_data \in certs : csr_cert_data.id = csr_cert_id /\ csr_cert_data.CSR # <<>>
    /\ LET serial == get_serial_for_certificate(ca_id)
           csr_cert_data == CHOOSE c \in certs : c.id = csr_cert_id
       IN  jobs' = Append(jobs, [serial |-> serial, signedby |-> ca_id,
                                 common |-> csr_cert_data.common])
    /\ lastAlloc' = Alloc("ca_sign_csr", ca_id)
    /\ UNCHANGED <<storeVars, procVars, acmeVars>>

\* the certificate.create job of ca_sign_csr: create_type CERTIFICATE_CREATE,
\* type CERT_TYPE_INTERNAL, the serial parsed back from the signed PEM
certificate_create_job ==
    /\ jobs # <<>>
    /\ "cert_create" \notin locks
    /\ LET new_csr == Head(jobs)
       IN  /\ valid_signing_ca(new_csr.signedby)
           /\ certs' = certs \cup {CertRow(certNext, CERT_TYPE_INTERNAL, new_csr.serial,
                                           new_csr.signedby, TRUE, new_csr.common, <<>>)}
    /\ certNext' = certNext + 1
    /\ jobs' = Tail(jobs)
    /\ UNCHANGED <<cas, caNext, lastAlloc, procVars, acmeVars>>

-----------------------------------------------------------------------------
(* Store operations run one after another.                                 *)

CaIds == {r.id : r \in cas}
CertIds == {c.id : c \in certs}

\* room left for one more row, counting the creations already under way
CaRoom == caNext + Cardinality({q \in CaCalls : pc[q] # "idle"}) <= MaxCAs
CertRoom == certNext + Len(jobs) + Cardinality({q \in CertJobs : pc[q] # "idle"}) <= MaxCerts

Next ==
    \/ CaRoom /\ \E s \in RandSerials : CA_CREATE_INTERNAL(s)
    \/ CaRoom /\ \E s \in PemSerials, sb \in {NoId} \cup CaIds, key \in BOOLEAN :
            CA_CREATE_IMPORTED(s, sb, key)
    \/ CaRoom /\ \E sb \in CaIds : CA_CREATE_INTERMEDIATE(sb)
    \/ CertRoom /\ \E sb \in CaIds : CERTIFICATE_CREATE_INTERNAL(sb, "a.example.com")
    \/ CertRoom /\ \E s \in PemSerials, sb \in CaIds :
            CERTIFICATE_CREATE(s, sb, CERT_TYPE_EXISTING, "a.example.com")
    \/ CertRoom /\ CERTIFICATE_CREATE_CSR("a.example.com", <<>>)
    \/ CertRoom /\ \E ca \in CaIds, csr \in CertIds : ca_sign_csr(ca, csr)
    \/ certificate_create_job

Spec == Init /\ [][Next]_vars

-----------------------------------------------------------------------------
(* Claims on the serial allocator.                                         *)

Roots == {k.id : k \in {x \in cas : x.signedby = NoId}}

\* C1: the serials of all certificates and CAs transitively signed by the
\* same root CA, together with the root's own serial, are pairwise distinct.
C1_SerialsUniqueUnderRoot ==
    \A root \in Roots : \A r1, r2 \in TreeRows(root) :
        r1 # r2 => r1[3] # r2[3]

\* C2: get_serial_for_certificate(ca) is one more than the largest serial
\* stored in the signing tree of ca's root (the root, every CA below it and
\* every certificate signed by any of them), for every CA of the store and
\* for the call made by the most recent allocation.
C2_SerialIsMaxPlusOne ==
    /\ \A ca \in cas :
          get_serial_for_certificate(ca.id) = Max(TreeSerials(root_of(ca.id))) + 1
    /\ lastAlloc.by # "none" =>
          lastAlloc.serial = Max({row[3] : row \in lastAlloc.tree}) + 1

\* C2 witness: an allocation made through a CA that is not the root, where
\* the largest serial was held by a certificate signed by a non-root CA.
C2_Witness ==
    /\ lastAlloc.by # "none"
    /\ lastAlloc.ca # lastAlloc.root
    /\ \E row \in lastAlloc.tree :
          /\ row[1] = "cert"
          /\ row[3] + 1 = lastAlloc.serial
          /\ \E c \in certs : c.id = row[2] /\ c.signedby # lastAlloc.root

\* the scenario of C4: an intermediate CA is created directly under a root
\* whose tree holds, besides the root, exactly two certificates, with
\* serials 5 and 7
C4_Scenario ==
    /\ lastAlloc.by = "CA_CREATE_INTERMEDIATE"
    /\ lastAlloc.ca = lastAlloc.root
    /\ \E r1, r2 \in lastAlloc.tree :
          /\ r1[1] = "cert" /\ r1[3] = 5
          /\ r2[1] = "cert" /\ r2[3] = 7
          /\ lastAlloc.tree \ {r1, r2} = {row \in lastAlloc.tree : row[1] = "ca"}
    /\ Cardinality({row \in lastAlloc.tree : row[1] = "ca"}) = 1

\* C4 as stated: in the scenario the new intermediate CA gets serial 8.
C4_Original == C4_Scenario => lastAlloc.serial = 8

\* C4 amended: in the scenario, when the root's own serial is at most 7,
\* the new intermediate CA gets serial 8.
C4_Amended ==
    (C4_Scenario /\ \A row \in lastAlloc.tree : row[1] = "ca" => row[3] <= 7)
        => lastAlloc.serial = 8

\* C4 witness: the scenario happened under a root of serial at most 7 and the
\* intermediate CA is stored with serial 8.
C4_Witness ==
    /\ C4_Scenario
    /\ \A row \in lastAlloc.tree : row[1] = "ca" => row[3] <= 7
    /\ \E k \in cas : /\ k.type = CA_TYPE_INTERMEDIATE
                       /\ k.signedby = lastAlloc.root
                       /\ k.serial = 8

-----------------------------------------------------------------------------
(* The creations that allocate a serial, step by step: the handlers run    *)
(* as coroutines and threads of one process, so the datastore reads of one *)
(* interleave with the reads and the insert of another unless a job lock   *)
(* keeps them apart.  CertificateService.do_create is a job under lock     *)
(* cert_create; CertificateAuthorityService.do_create and ca_sign_csr take *)
(* no lock.                                                                *)

\* certificate.create CERTIFICATE_CREATE_INTERNAL: the job takes the lock
\* and validates its arguments
cert_internal_start(p, signedby) ==
    /\ pc[p] = "idle"
    /\ "cert_create" \notin locks
    /\ valid_signing_ca(signedby)
    /\ locks' = locks \cup {"cert_create"}
    /\ pc' = [pc EXCEPT ![p] = "internal_validated"]
    /\ loc' = [loc EXCEPT ![p] = [op |-> "CERTIFICATE_CREATE_INTERNAL",
                                  signedby |-> signedby, serial |-> NoSerial]]
    /\ UNCHANGED <<storeVars, jobs, lastAlloc, acmeVars>>

\* __create_internal calls get_serial_for_certificate and signs
cert_internal_allocate(p) ==
    /\ pc[p] = "internal_validated"
    /\ loc' = [loc EXCEPT ![p].serial = get_serial_for_certificate(loc[p].signedby)]
    /\ lastAlloc' = Alloc(loc[p].op, loc[p].signedby)
    /\ pc' = [pc EXCEPT ![p] = "internal_built"]
    /\ UNCHANGED <<storeVars, jobs, locks, acmeVars>>

\* datastore.insert, after which the job ends and its lock is released
cert_internal_insert(p) ==
    /\ pc[p] = "internal_built"
    /\ certs' = certs \cup {CertRow(certNext, CERT_TYPE_INTERNAL, loc[p].serial,
                                    loc[p].signedby, TRUE, "a.example.com", <<>>)}
    /\ certNext' = certNext + 1
    /\ locks' = locks \ {"cert_create"}
    /\ pc' = [pc EXCEPT ![p] = "idle"]
    /\ loc' = [loc EXCEPT ![p] = Idle]
    /\ UNCHANGED <<cas, caNext, jobs, lastAlloc, acmeVars>>

\* certificateauthority.create CA_CREATE_INTERMEDIATE: validation
ca_intermediate_start(p, signedby) ==
    /\ pc[p] = "idle"
    /\ valid_signing_ca(signedby)
    /\ pc' = [pc EXCEPT ![p] = "intermediate_validated"]
    /\ loc' = [loc EXCEPT ![p] = [op |-> "CA_CREATE_INTERMEDIATE",
                                  signedby |-> signedby, serial |-> NoSerial]]
    /\ UNCHANGED <<storeVars, jobs, lastAlloc, locks, acmeVars>>

\* __create_intermediate_ca calls get_serial_for_certificate and signs
ca_intermediate_allocate(p) ==
    /\ pc[p] = "intermediate_validated"
    /\ loc' = [loc EXCEPT ![p].serial = get_serial_for_certificate(loc[p].signedby)]
    /\ lastAlloc' = Alloc(loc[p].op, loc[p].signedby)
    /\ pc' = [pc EXCEPT ![p] = "intermediate_built"]
    /\ UNCHANGED <<storeVars, jobs, locks, acmeVars>>

\* datastore.insert of the new CA
ca_intermediate_insert(p) ==
    /\ pc[p] = "intermediate_built"
    /\ cas' = cas \cup {CARow(caNext, CA_TYPE_INTERMEDIATE, loc[p].serial,
                                loc[p].signedby, TRUE)}
    /\ caNext' = caNext + 1
    /\ pc' = [pc EXCEPT ![p] = "idle"]
    /\ loc' = [loc EXCEPT ![p] = Idle]
    /\ UNCHANGED <<certs, certNext, jobs, lastAlloc, locks, acmeVars>>

NextConc ==
    \/ CaRoom /\ \E s \in RandSerials : CA_CREATE_INTERNAL(s)
    \/ CertRoom /\ CERTIFICATE_CREATE_CSR("a.example.com", <<>>)
    \/ CertRoom /\ \E ca \in CaIds, csr \in CertIds : ca_sign_csr(ca, csr)
    \/ certificate_create_job
    \/ CertRoom /\ \E p \in CertJobs, sb \in CaIds : cert_internal_start(p, sb)
    \/ \E p \in CertJobs : cert_internal_allocate(p)
    \/ \E p \in CertJobs : cert_internal_insert(p)
    \/ CaRoom /\ \E p \in CaCalls, sb \in CaIds : ca_intermediate_start(p, sb)
    \/ \E p \in CaCalls : ca_intermediate_allocate(p)
    \/ \E p \in CaCalls : ca_intermediate_insert(p)

SpecConc == Init /\ [][NextConc]_vars

\* the serials handed out by the allocator and not stored yet:
\* <<creation, root, serial>>
Granted ==
    {<<p, root_of(loc[p].signedby), loc[p].serial>> :
        p \in {q \in Procs : pc[q] \in {"internal_built", "intermediate_built"}}}

\* the same for the certificate.create jobs ca_sign_csr has queued
GrantedJobs ==
    {<<i, root_of(jobs[i].signedby), jobs[i].serial>> : i \in DOMAIN jobs}

\* C3: two creations under the same root CA never hold the same serial:
\* neither two that are both between the allocator's read and their insert,
\* nor one in that window and a row already stored, nor two stored rows.
C3_NoSharedSerial ==
    /\ \A g1, g2 \in Granted : (g1 # g2 /\ g1[2] = g2[2]) => g1[3] # g2[3]
    /\ \A g1, g2 \in GrantedJobs : (g1 # g2 /\ g1[2] = g2[2]) => g1[3] # g2[3]
    /\ \A g1 \in Granted, g2 \in GrantedJobs : g1[2] = g2[2] => g1[3] # g2[3]
    /\ \A g \in Granted \cup GrantedJobs : g[3] \notin TreeSerials(g[2])
    /\ C1_SerialsUniqueUnderRoot

-----------------------------------------------------------------------------
(* ACME issuance: CertificateService.issue_certificate and its callers.    *)

\* the names a CSR may ask for
Domains == {"a.example.com", "b.example.com"}

\* the ACME directory URIs in use
Directories == {"https://acme.test/directory"}

\* the ids dns.authenticator.query returns, and the ids a caller may give
AuthenticatorIds == {1}
MappingIds == {1, 2}

\* the dns_mapping arguments explored (an empty mapping is dropped by
\* do_create and then rejected by the schema of __create_acme_certificate)
DnsMappings == UNION {[K -> MappingIds] : K \in (SUBSET Domains) \ {{}}}

\* renew_days arguments, and the validity in days of an issued certificate
RenewDaysArgs == {2}
Lifetimes == {1, 2}

MaxDay == 1          \* days that pass
MaxCsrs == 1         \* CSR rows created before ACME issuance
MaxAcmeCerts == 2    \* ACME-managed rows ever inserted
MaxRunning == 2      \* handlers under way at once

SeqSet(s) == {s[i] : i \in DOMAIN s}

\* certificate.get_domain_names: [common] + san
get_domain_names(data) == <<data.common>> \o data.san

\* (variant: only the CSR's domains are checked against the mapping)
mapping_verrors_one_way(domains, dns_mapping) ==
    {<<"acme_create.dns_mapping", "Please provide DNS authenticator id for", d>> :
        d \in {x \in SeqSet(domains) : x \notin DOMAIN dns_mapping}}

\* the two validation loops of issue_certificate: one verrors entry
\* <<attribute, message, domain>> per mismatch
mapping_verrors(domains, dns_mapping) ==
    {<<"acme_create.dns_mapping", "Please provide DNS authenticator id for", d>> :
        d \in {x \in SeqSet(domains) : x \notin DOMAIN dns_mapping}}
    \cup
    {<<"acme_create.dns_mapping", "Provided DNS Authenticator id does not exist for", d>> :
        d \in {x \in SeqSet(domains) \cap DOMAIN dns_mapping :
                  dns_mapping[x] \notin AuthenticatorIds}}
    \cup
    {<<"acme_create.dns_mapping", "not specified in the CSR", d>> :
        d \in {x \in DOMAIN dns_mapping : x \notin SeqSet(domains)}}

\* the locals of one run of issue_certificate (and of handle_authorizations)
\* inside handler `op`; `run` holds the caller's own locals
Attempt(op, run, csr_data, acme_directory_uri, dns_mapping) ==
    [op |-> op, run |-> run, csr_data |-> csr_data,
     acme_directory_uri |-> acme_directory_uri, dns_mapping |-> dns_mapping,
     verrors |-> {},            \* verrors of issue_certificate
     auth_verrors |-> {},       \* verrors of handle_authorizations
     authorizations |-> <<>>,   \* order.authorizations, by domain
     idx |-> 0,                 \* position of the authorization loop
     status |-> FALSE,          \* result of update_txt_record
     final_order |-> [serial |-> NoSerial, lifetime |-> 0, fullchain |-> 0],
     log |-> <<>>,              \* calls made to the collaborators, in order
     raised |-> {}]             \* the exception that is propagating

\* the lock of the job that runs handler `op`
LockOf(op) ==
    CASE op = "CERTIFICATE_CREATE_ACME" -> "cert_create"
      [] op = "renew_certs" -> "acme_cert_renewal"
      [] op = "do_delete" -> "cert_delete"
      [] op = "certificate.create" -> "cert_create"
      [] op = "certificate.update" -> "cert_update"
      [] OTHER -> "no lock"

\* an exception leaves the handler
Raise(p, errors) ==
    /\ pc' = [pc EXCEPT ![p] = "raised"]
    /\ loc' = [loc EXCEPT ![p].raised = errors]

\* certificate.create CERTIFICATE_CREATE_ACME: the job takes lock
\* cert_create, do_create validates csr_id and __create_acme_certificate
\* reads the CSR row before it calls issue_certificate
acme_create_start(p, csr_id, acme_directory_uri, dns_mapping, renew_days) ==
    /\ pc[p] = "idle"
    /\ "cert_create" \notin locks
    /\ \E c \in certs : c.id = csr_id /\ c.CSR # <<>>   \* any row that holds a CSR
    /\ locks' = locks \cup {"cert_create"}
    /\ pc' = [pc EXCEPT ![p] = "issue"]
    /\ loc' = [loc EXCEPT ![p] =
                 Attempt("CERTIFICATE_CREATE_ACME", [renew_days |-> renew_days],
                         CHOOSE c \in certs : c.id = csr_id,
                         acme_directory_uri, dns_mapping)]
    /\ UNCHANGED <<storeVars, jobs, lastAlloc, acmeVars>>

\* issue_certificate, lines 605-632: the domain / dns_mapping validation
issue_validate(p) ==
    /\ pc[p] = "issue"
    /\ LET v == mapping_verrors(get_domain_names(loc[p].csr_data), loc[p].dns_mapping)
       IN  IF v # {}
           THEN /\ pc' = [pc EXCEPT ![p] = "raised"]
                /\ loc' = [loc EXCEPT ![p].verrors = v, ![p].raised = v]
           ELSE /\ pc' = [pc EXCEPT ![p] = "get_client"]
                /\ loc' = [loc EXCEPT ![p].log = Append(@, <<"validated", "", "">>)]
    /\ UNCHANGED <<storeVars, jobs, lastAlloc, locks, acmeVars>>

\* (variant: the lookup by directory URI never finds a registration)
registration_query_none(acme_directory_uri) == {}

\* acme.registration.query [['directory', '=', acme_directory_uri]]
registration_query(acme_directory_uri) ==
    {r \in regs : r.directory = acme_directory_uri}

\* get_acme_client_and_key, line 567: the lookup
get_acme_lookup(p) ==
    /\ pc[p] = "get_client"
    /\ LET data == registration_query(loc[p].acme_directory_uri)
       IN  /\ pc' = [pc EXCEPT ![p] = IF data = {} THEN "register" ELSE "client"]
           /\ loc' = [loc EXCEPT ![p].log =
                        Append(@, <<"acme.registration.query", loc[p].acme_directory_uri,
                                    IF data = {} THEN "none" ELSE "found">>)]
    /\ UNCHANGED <<storeVars, jobs, lastAlloc, locks, acmeVars>>

\* get_acme_client_and_key, lines 568-572: acme.registration.create
get_acme_register(p) ==
    /\ pc[p] = "register"
    /\ regs' = regs \cup {[id |-> regNext, directory |-> loc[p].acme_directory_uri]}
    /\ regNext' = regNext + 1
    /\ pc' = [pc EXCEPT ![p] = "client"]
    /\ loc' = [loc EXCEPT ![p].log =
                 Append(@, <<"acme.registration.create", loc[p].acme_directory_uri, "">>)]
    /\ UNCHANGED <<storeVars, jobs, lastAlloc, locks, now>>

\* the handlers that run issue_certificate
IssueOps == {"CERTIFICATE_CREATE_ACME", "renew_certs"}

\* (variant: a rejected order is noted and the attempt goes on)
new_order_always_placed(p, ok) ==
    /\ pc[p] = "client"
    /\ loc[p].op \in IssueOps
    /\ pc' = [pc EXCEPT ![p] = "order_placed"]
    /\ loc' = [loc EXCEPT ![p].authorizations = loc[p].csr_data.CSR,
                          ![p].log = Append(@, <<"new_order", "", IF ok THEN "ok" ELSE "error">>)]
    /\ UNCHANGED <<storeVars, jobs, lastAlloc, locks, acmeVars>>

\* acme_client.new_order(csr_data['CSR']), lines 635-644: the order holds one
\* authorization per name of the CSR, or the directory rejects it
new_order(p, ok) ==
    /\ pc[p] = "client"
    /\ loc[p].op \in IssueOps
    /\ IF ok
       THEN /\ pc' = [pc EXCEPT ![p] = "order_placed"]
            /\ loc' = [loc EXCEPT ![p].authorizations = loc[p].csr_data.CSR,
                                  ![p].log = Append(@, <<"new_order", "", "ok">>)]
       ELSE LET v == {<<"acme_create.new_order",
                        "Failed to issue a new order for Certificate", "">>}
            IN  /\ pc' = [pc EXCEPT ![p] = "raised"]
                /\ loc' = [loc EXCEPT ![p].verrors = v, ![p].raised = v,
                                      ![p].log = Append(@, <<"new_order", "", "error">>)]
    /\ UNCHANGED <<storeVars, jobs, lastAlloc, locks, acmeVars>>

\* outcomes of dns.authenticator.update_txt_record: the status it returns,
\* or ValidationErrors
TxtOutcomes == {"true", "false", "error"}

Authorization(p) == loc[p].authorizations[loc[p].idx + 1]

\* handle_authorizations, lines 672-690: the authorization offers no dns-01
\* challenge; the error is kept and the loop continues
authorization_no_challenge(p) ==
    /\ pc[p] = "authorizations"
    /\ loc[p].idx < Len(loc[p].authorizations)
    /\ LET domain == Authorization(p)
       IN  loc' = [loc EXCEPT ![p].auth_verrors = @ \cup
                        {<<"acme_authorization.domain",
                           "DNS Challenge not found for domain", domain>>},
                              ![p].idx = @ + 1,
                              ![p].status = FALSE,
                              ![p].log = Append(@, <<"challenge", domain, "none">>)]
    /\ UNCHANGED <<storeVars, jobs, lastAlloc, pc, locks, acmeVars>>

\* handle_authorizations, lines 692-702: dns.authenticator.update_txt_record
\* for the authorization's domain
update_txt_record(p, outcome) ==
    /\ pc[p] = "authorizations"
    /\ loc[p].idx < Len(loc[p].authorizations)
    /\ Authorization(p) \in DOMAIN loc[p].dns_mapping
    /\ LET domain == Authorization(p)
       IN  IF outcome = "error"
           THEN /\ loc' = [loc EXCEPT ![p].auth_verrors = @ \cup
                             {<<"dns_authenticator.update_txt_record",
                                "DNS authenticator failed for", domain>>},
                                   ![p].idx = @ + 1,
                                   ![p].status = FALSE,
                                   ![p].log = Append(@, <<"update_txt_record", domain, "error">>)]
                /\ pc' = pc
           ELSE /\ loc' = [loc EXCEPT ![p].status = (outcome = "true"),
                                   ![p].log = Append(@, <<"update_txt_record", domain, outcome>>)]
                /\ pc' = [pc EXCEPT ![p] = "answer"]
    /\ UNCHANGED <<storeVars, jobs, lastAlloc, locks, acmeVars>>

\* handle_authorizations, line 695: the authorization names a domain that
\* dns_mapping does not hold; the KeyError leaves the loop and the handler
update_txt_record_key_error(p) ==
    /\ pc[p] = "authorizations"
    /\ loc[p].idx < Len(loc[p].authorizations)
    /\ Authorization(p) \notin DOMAIN loc[p].dns_mapping
    /\ Raise(p, {<<"KeyError", "", Authorization(p)>>})
    /\ UNCHANGED <<storeVars, jobs, lastAlloc, locks, acmeVars>>

\* handle_authorizations, lines 704-716: acme_client.answer_challenge
answer_challenge(p, ok) ==
    /\ pc[p] = "answer"
    /\ LET domain == Authorization(p)
       IN  loc' = [loc EXCEPT ![p].auth_verrors =
                        IF ok THEN @
                        ELSE @ \cup {<<"acme_authorization.domain",
                                       "Error answering challenge for", domain>>},
                              ![p].idx = @ + 1,
                              ![p].log = Append(@, <<"answer_challenge", domain,
                                                     IF ok THEN "ok" ELSE "error">>)]
    /\ pc' = [pc EXCEPT ![p] = "authorizations"]
    /\ UNCHANGED <<storeVars, jobs, lastAlloc, locks, acmeVars>>

\* issue_certificate, line 646: handle_authorizations is entered
handle_authorizations(p) ==
    /\ pc[p] = "order_placed"
    /\ pc' = [pc EXCEPT ![p] = "authorizations"]
    /\ loc' = [loc EXCEPT ![p].idx = 0, ![p].auth_verrors = {}]
    /\ UNCHANGED <<storeVars, jobs, lastAlloc, locks, acmeVars>>

\* handle_authorizations, lines 718-719: after the loop, raise what was
\* collected or return to issue_certificate
handle_authorizations_return(p) ==
    /\ pc[p] = "authorizations"
    /\ loc[p].idx = Len(loc[p].authorizations)
    /\ IF loc[p].auth_verrors # {}
       THEN Raise(p, loc[p].auth_verrors)
       ELSE /\ pc' = [pc EXCEPT ![p] = "authorizations_resolved"]
            /\ loc' = loc
    /\ UNCHANGED <<storeVars, jobs, lastAlloc, locks, acmeVars>>

\* issue_certificate, line 651: poll_and_finalize is called with a deadline
\* ten minutes ahead
poll_and_finalize(p) ==
    /\ pc[p] = "authorizations_resolved"
    /\ pc' = [pc EXCEPT ![p] = "finalizing"]
    /\ loc' = [loc EXCEPT ![p].log = Append(@, <<"poll_and_finalize", "", "">>)]
    /\ UNCHANGED <<storeVars, jobs, lastAlloc, locks, acmeVars>>

\* serial numbers of the certificates the ACME server issues
AcmeSerials == {11}

\* the same where a certificate is issued again for a record
ReissueSerials == {11, 12}

\* certificates in final_order.fullchain_pem: the leaf and its issuer
FullchainLength == 2

\* (variant: the flag is set from the third block on)
chain_flag_above_two(ncerts) == ncerts > 2

\* the chain flag computed from a PEM bundle
chain_flag(ncerts) == ncerts > 1

\* what poll_and_finalize can do: return the final order, run into the
\* deadline (errors.TimeoutError), or raise another error of the ACME client
FinalizeOutcomes == {"issued", "timeout", "error"}

TimeoutVerrors ==
    {<<"acme_create.final_order", "Certificate request for final order timed out", "">>}

\* (variant: the deadline is not noticed and the order counts as issued)
finalize_result_no_deadline(p, outcome, serial, lifetime) ==
    /\ pc[p] = "finalizing"
    /\ IF outcome \in {"issued", "timeout"}
       THEN /\ pc' = [pc EXCEPT ![p] = "issued"]
            /\ loc' = [loc EXCEPT ![p].final_order = [serial |-> serial, lifetime |-> lifetime,
                                          fullchain |-> FullchainLength],
                                  ![p].log = Append(@, <<"final_order", "", outcome>>)]
       ELSE /\ pc' = [pc EXCEPT ![p] = "raised"]
            /\ loc' = [loc EXCEPT ![p].raised = {<<"acme.errors", "", "">>},
                                  ![p].log = Append(@, <<"final_order", "", outcome>>)]
    /\ UNCHANGED <<storeVars, jobs, lastAlloc, locks, acmeVars>>

\* issue_certificate, lines 648-659: the result of poll_and_finalize
finalize_result(p, outcome, serial, lifetime) ==
    /\ pc[p] = "finalizing"
    /\ pc' = [pc EXCEPT ![p] = IF outcome = "issued" THEN "issued" ELSE "raised"]
    /\ loc' = [loc EXCEPT
                 ![p].final_order = IF outcome = "issued"
                                    THEN [serial |-> serial, lifetime |-> lifetime,
                                          fullchain |-> FullchainLength]
                                    ELSE @,
                 ![p].verrors = IF outcome = "timeout" THEN TimeoutVerrors ELSE @,
                 ![p].raised = CASE outcome = "timeout" -> TimeoutVerrors
                                 [] outcome = "error" -> {<<"acme.errors", "", "">>}
                                 [] OTHER -> @,
                 ![p].log = Append(@, <<"final_order", "", outcome>>)]
    /\ UNCHANGED <<storeVars, jobs, lastAlloc, locks, acmeVars>>

\* __create_acme_certificate, lines 871-893, and do_create, lines 829-849:
\* the row built from the final order is inserted and the job ends.  common
\* and san are read from the subject of the issued certificate, where an ACME
\* server puts the common name only
acme_create_insert(p) ==
    /\ pc[p] = "issued"
    /\ loc[p].op = "CERTIFICATE_CREATE_ACME"
    /\ LET registration == CHOOSE r \in regs : r.directory = loc[p].acme_directory_uri
           row == [CertRow(certNext, CERT_TYPE_EXISTING, loc[p].final_order.serial,
                           NoId, TRUE, loc[p].csr_data.common, <<>>)
                     EXCEPT !.acme = registration.id,
                            !.CSR = loc[p].csr_data.CSR,
                            !.domains_authenticators = loc[p].dns_mapping,
                            !.expire = now + loc[p].final_order.lifetime,
                            !.renew_days = loc[p].run.renew_days,
                            !.acme_uri = loc[p].final_order.serial,
                            !.chain = chain_flag(loc[p].final_order.fullchain)]
       IN  certs' = certs \cup {row}
    /\ certNext' = certNext + 1
    /\ pc' = [pc EXCEPT ![p] = "notify"]
    /\ UNCHANGED <<cas, caNext, jobs, lastAlloc, loc, locks, acmeVars>>

\* service.start('ix-ssl') after the store write, then the handler returns
\* (and, for a job, gives up its lock)
service_start(p) ==
    /\ pc[p] = "notify"
    /\ pc' = [pc EXCEPT ![p] = "idle"]
    /\ loc' = [loc EXCEPT ![p] = Idle]
    /\ locks' = locks \ {LockOf(loc[p].op)}
    /\ UNCHANGED <<storeVars, jobs, lastAlloc, acmeVars>>

\* the exception reaches the job runner: the job fails and gives up its lock
job_raise(p) ==
    /\ pc[p] = "raised"
    /\ pc' = [pc EXCEPT ![p] = "idle"]
    /\ locks' = locks \ {LockOf(loc[p].op)}
    /\ loc' = [loc EXCEPT ![p] = Idle]
    /\ UNCHANGED <<storeVars, jobs, lastAlloc, acmeVars>>

RECURSIVE SortById(_)
\* the rows of a query, in id order
SortById(rows) ==
    IF rows = {} THEN <<>>
    ELSE LET first == CHOOSE r \in rows : \A o \in rows : r.id <= o.id
         IN  <<first>> \o SortById(rows \ {first})

\* renew_certs, lines 732-734: the record is due
due(cert) == cert.expire - now < cert.renew_days

\* (variant: renew_certs is a job without a lock)
renew_certs_unlocked(p) ==
    /\ pc[p] = "idle"
    /\ locks' = locks \cup {"acme_cert_renewal"}
    /\ pc' = [pc EXCEPT ![p] = "renew_loop"]
    /\ loc' = [loc EXCEPT ![p] =
                 [op |-> "renew_certs",
                  run |-> [certs |-> SortById({c \in certs : c.acme # NoId}), i |-> 0]]]
    /\ UNCHANGED <<storeVars, jobs, lastAlloc, acmeVars>>

\* renew_certs, lines 722-728: the job takes lock acme_cert_renewal and
\* queries the ACME-managed certificates once
renew_certs(p) ==
    /\ pc[p] = "idle"
    /\ "acme_cert_renewal" \notin locks
    /\ locks' = locks \cup {"acme_cert_renewal"}
    /\ pc' = [pc EXCEPT ![p] = "renew_loop"]
    /\ loc' = [loc EXCEPT ![p] =
                 [op |-> "renew_certs",
                  run |-> [certs |-> SortById({c \in certs : c.acme # NoId}), i |-> 0]]]
    /\ UNCHANGED <<storeVars, jobs, lastAlloc, acmeVars>>

\* renew_certs, lines 729-744: the next record of the run; one that is due
\* goes to issue_certificate with its stored directory and dns_mapping
renew_next(p) ==
    /\ pc[p] = "renew_loop"
    /\ loc[p].run.i < Len(loc[p].run.certs)
    /\ LET run == [loc[p].run EXCEPT !.i = @ + 1]
           cert == run.certs[run.i]
           registration == CHOOSE r \in regs : r.id = cert.acme
       IN  IF due(cert)
           THEN /\ pc' = [pc EXCEPT ![p] = "issue"]
                /\ loc' = [loc EXCEPT ![p] =
                             Attempt("renew_certs", run, cert, registration.directory,
                                     cert.domains_authenticators)]
           ELSE /\ pc' = pc
                /\ loc' = [loc EXCEPT ![p].run = run]
    /\ UNCHANGED <<storeVars, jobs, lastAlloc, locks, acmeVars>>

\* renew_certs, lines 746-759: datastore.update of the renewed record with
\* the new certificate and expiry; a record deleted meanwhile cannot be updated
renew_update(p) ==
    /\ pc[p] = "issued"
    /\ loc[p].op = "renew_certs"
    /\ LET id == loc[p].csr_data.id
       IN  IF \E c \in certs : c.id = id
           THEN /\ certs' = {IF c.id = id
                             THEN [c EXCEPT !.body = loc[p].final_order.serial,
                                            !.acme_uri = loc[p].final_order.serial,
                                            !.expire = now + loc[p].final_order.lifetime,
                                            !.chain = chain_flag(loc[p].final_order.fullchain)]
                             ELSE c : c \in certs}
                /\ pc' = [pc EXCEPT ![p] = "renew_loop"]
                /\ loc' = loc
           ELSE /\ certs' = certs
                /\ Raise(p, {<<"datastore.update", "", "">>})
    /\ UNCHANGED <<cas, caNext, certNext, jobs, lastAlloc, locks, acmeVars>>

\* renew_certs: the loop is over, the job ends
renew_done(p) ==
    /\ pc[p] = "renew_loop"
    /\ loc[p].run.i = Len(loc[p].run.certs)
    /\ pc' = [pc EXCEPT ![p] = "idle"]
    /\ loc' = [loc EXCEPT ![p] = Idle]
    /\ locks' = locks \ {"acme_cert_renewal"}
    /\ UNCHANGED <<storeVars, jobs, lastAlloc, acmeVars>>

\* CertificateService.do_delete, lines 1119-1135: the job takes lock
\* cert_delete; an ACME-managed certificate is revoked first
do_delete(p, id, force) ==
    /\ pc[p] = "idle"
    /\ "cert_delete" \notin locks
    /\ \E c \in certs : c.id = id
    /\ locks' = locks \cup {"cert_delete"}
    /\ LET cert == CHOOSE c \in certs : c.id = id
       IN  IF cert.acme # NoId
           THEN /\ pc' = [pc EXCEPT ![p] = "get_client"]
                /\ loc' = [loc EXCEPT ![p] =
                             [Attempt("do_delete", [id |-> id, force |-> force], cert,
                                      (CHOOSE r \in regs : r.id = cert.acme).directory, <<>>)
                              EXCEPT !.dns_mapping = cert.domains_authenticators]]
           ELSE /\ pc' = [pc EXCEPT ![p] = "delete"]
                /\ loc' = [loc EXCEPT ![p] =
                             [op |-> "do_delete", run |-> [id |-> id, force |-> force]]]
    /\ UNCHANGED <<storeVars, jobs, lastAlloc, acmeVars>>

\* do_delete, lines 1139-1153: client.revoke; a failure ends the delete
\* unless force was given
revoke(p, ok) ==
    /\ pc[p] = "client"
    /\ loc[p].op = "do_delete"
    /\ LET v == IF ok THEN {}
                ELSE {<<"acme_revoke.id", "Unable to revoke certificate", "">>}
       IN  IF v # {} /\ ~loc[p].run.force
           THEN /\ pc' = [pc EXCEPT ![p] = "raised"]
                /\ loc' = [loc EXCEPT ![p].verrors = v, ![p].raised = v,
                                      ![p].log = Append(@, <<"revoke", "", "error">>)]
           ELSE /\ pc' = [pc EXCEPT ![p] = "delete"]
                /\ loc' = [loc EXCEPT ![p].verrors = v,
                                      ![p].log = Append(@, <<"revoke", "", IF ok THEN "ok" ELSE "error">>)]
    /\ UNCHANGED <<storeVars, jobs, lastAlloc, locks, acmeVars>>

\* do_delete, lines 1139-1144: client.revoke or load_certificate raises what
\* `except errors.ClientError` does not catch (messages.Error, as new_order
\* does at 638, a connection error, crypto.Error): the job ends with it
revoke_raises(p) ==
    /\ pc[p] = "client"
    /\ loc[p].op = "do_delete"
    /\ pc' = [pc EXCEPT ![p] = "raised"]
    /\ loc' = [loc EXCEPT ![p].raised = {<<"messages.Error", "revoke", "">>},
                          ![p].log = Append(@, <<"revoke", "", "raised">>)]
    /\ UNCHANGED <<storeVars, jobs, lastAlloc, locks, acmeVars>>

\* do_delete, lines 1155-1159: datastore.delete
datastore_delete(p) ==
    /\ pc[p] = "delete"
    /\ certs' = {c \in certs : c.id # loc[p].run.id}
    /\ pc' = [pc EXCEPT ![p] = "notify"]
    /\ UNCHANGED <<cas, caNext, certNext, jobs, lastAlloc, loc, locks, acmeVars>>

\* a day passes
time_passes ==
    /\ now' = now + 1
    /\ UNCHANGED <<storeVars, jobs, lastAlloc, procVars, regs, regNext>>

\* the number of handlers under way
Running == Cardinality({p \in Procs : pc[p] # "idle"})

NextAcme ==
    \/ certNext <= MaxCsrs /\ \E san \in {<<>>, <<"b.example.com">>} :
            CERTIFICATE_CREATE_CSR("a.example.com", san)
    \/ /\ certNext <= MaxCsrs + MaxAcmeCerts
       /\ Running < MaxRunning
       /\ \E p \in CertJobs, csr \in CertIds, uri \in Directories,
             m \in DnsMappings, rd \in RenewDaysArgs :
            acme_create_start(p, csr, uri, m, rd)
    \/ \E p \in Procs : issue_validate(p)
    \/ \E p \in Procs : get_acme_lookup(p)
    \/ \E p \in Procs : get_acme_register(p)
    \/ \E p \in Procs, ok \in BOOLEAN : new_order(p, ok)
    \/ \E p \in Procs : handle_authorizations(p)
    \/ \E p \in Procs : authorization_no_challenge(p)
    \/ \E p \in Procs, o \in TxtOutcomes : update_txt_record(p, o)
    \/ \E p \in Procs : update_txt_record_key_error(p)
    \/ \E p \in Procs, ok \in BOOLEAN : answer_challenge(p, ok)
    \/ \E p \in Procs : handle_authorizations_return(p)
    \/ \E p \in Procs : poll_and_finalize(p)
    \/ \E p \in Procs, o \in FinalizeOutcomes, s \in AcmeSerials, l \in Lifetimes :
            finalize_result(p, o, s, l)
    \/ \E p \in Procs : acme_create_insert(p)
    \/ \E p \in Procs : job_raise(p)
    \/ Running < MaxRunning /\ renew_certs("renew")
    \/ renew_next("renew")
    \/ renew_update("renew")
    \/ renew_done("renew")
    \/ Running < MaxRunning /\ \E id \in CertIds, force \in BOOLEAN : do_delete("delete", id, force)
    \/ revoke("delete", TRUE) \/ revoke("delete", FALSE)
    \/ revoke_raises("delete")
    \/ datastore_delete("delete")
    \/ \E p \in CertJobs \cup {"delete"} : service_start(p)
    \/ now < MaxDay /\ time_passes

SpecAcme == Init /\ [][NextAcme]_vars

\* The renewal scheduler: renew_certs is fired once at start and once a day,
\* next to one creation job.
NextRenew ==
    \/ certNext <= MaxCsrs /\ \E san \in {<<>>, <<"b.example.com">>} :
            CERTIFICATE_CREATE_CSR("a.example.com", san)
    \/ /\ certNext <= MaxCsrs + MaxAcmeCerts
       /\ Running < MaxRunning
       /\ \E csr \in CertIds, uri \in Directories, m \in DnsMappings, rd \in RenewDaysArgs :
            acme_create_start("create1", csr, uri, m, rd)
    \/ \E p \in Procs : issue_validate(p)
    \/ \E p \in Procs : get_acme_lookup(p)
    \/ \E p \in Procs : get_acme_register(p)
    \/ \E p \in Procs, ok \in BOOLEAN : new_order(p, ok)
    \/ \E p \in Procs : handle_authorizations(p)
    \/ \E p \in Procs : authorization_no_challenge(p)
    \/ \E p \in Procs : update_txt_record(p, "true")
    \/ \E p \in Procs : update_txt_record_key_error(p)
    \/ \E p \in Procs : answer_challenge(p, TRUE)
    \/ \E p \in Procs : handle_authorizations_return(p)
    \/ \E p \in Procs : poll_and_finalize(p)
    \/ \E p \in Procs, o \in FinalizeOutcomes, s \in ReissueSerials, l \in Lifetimes :
            finalize_result(p, o, s, l)
    \/ \E p \in Procs : acme_create_insert(p)
    \/ \E p \in CertJobs : service_start(p)
    \/ \E p \in Procs : job_raise(p)
    \/ Running < MaxRunning /\ \E p \in RenewRuns : renew_certs(p)
    \/ \E p \in RenewRuns : renew_next(p)
    \/ \E p \in RenewRuns : renew_update(p)
    \/ \E p \in RenewRuns : renew_done(p)
    \/ now < MaxDay /\ time_passes

SpecRenew == Init /\ [][NextRenew]_vars

-----------------------------------------------------------------------------
(* Claims about ACME issuance, checked under SpecAcme.                     *)

\* p is inside a run of issue_certificate
InIssue(p) ==
    /\ pc[p] \notin {"idle", "renew_loop", "delete"}
    /\ loc[p].op \in IssueOps

HasEvent(log, kind) == \E i \in DOMAIN log : log[i][1] = kind

\* the names of the CSR record without a dns_mapping entry, and the
\* dns_mapping keys that are no name of the CSR record
MissingEntries(p) ==
    {d \in SeqSet(get_domain_names(loc[p].csr_data)) : d \notin DOMAIN loc[p].dns_mapping}
ExtraKeys(p) ==
    {d \in DOMAIN loc[p].dns_mapping : d \notin SeqSet(get_domain_names(loc[p].csr_data))}

C6_AllAttemptedThenAggregated ==
    \A p \in Procs :
        (InIssue(p) /\ loc[p].auth_verrors # {}) =>
            /\ pc[p] = "raised" =>
                   /\ loc[p].idx = Len(loc[p].authorizations)
                   /\ loc[p].raised = loc[p].auth_verrors
            /\ ~HasEvent(loc[p].log, "poll_and_finalize")

\* C7: a poll_and_finalize that runs into its deadline ends the attempt with
\* the final_order timeout error alone, and the handler ends without an
\* insert or update of a certificate record
C7_TimeoutPersistsNothing ==
    [][\A p \in Procs :
          /\ (pc[p] = "finalizing" /\ pc'[p] # "finalizing"
                 /\ loc'[p].log[Len(loc'[p].log)][3] = "timeout") =>
                  /\ pc'[p] = "raised"
                  /\ loc'[p].raised = TimeoutVerrors
                  /\ UNCHANGED <<certs, certNext>>
          /\ (pc[p] = "raised" /\ pc'[p] # "raised") =>
                  /\ pc'[p] = "idle"
                  /\ UNCHANGED <<certs, certNext>>]_vars

\* a renewal whose finalization ran into the deadline
C7_Witness ==
    /\ pc["renew"] = "raised"
    /\ loc["renew"].raised = TimeoutVerrors

\* the authorization of domain d has been handled before position i of the log
Handled(log, d, i) ==
    \E j \in 1..(i - 1) :
        /\ log[j][2] = d
        /\ \/ log[j][1] = "challenge"
           \/ log[j][1] = "answer_challenge"
           \/ log[j][1] = "update_txt_record" /\ log[j][3] = "error"

\* C8: in one attempt the order is placed only after the mapping validation
\* passed, a challenge is answered only after its TXT record went to the DNS
\* authenticator, poll_and_finalize is called only after the order was placed
\* and every authorization was handled, and a rejected order ends the attempt
\* with no authorization or finalization step
C8_StepOrder ==
    \A p \in Procs : InIssue(p) =>
        LET log == loc[p].log
        IN  \A i \in DOMAIN log :
              /\ log[i][1] = "new_order" =>
                     \E j \in 1..(i - 1) : log[j][1] = "validated"
              /\ log[i][1] \in {"challenge", "update_txt_record"} =>
                     \E j \in 1..(i - 1) : log[j] = <<"new_order", "", "ok">>
              /\ log[i][1] = "answer_challenge" =>
                     /\ i > 1
                     /\ log[i - 1][1] = "update_txt_record"
                     /\ log[i - 1][2] = log[i][2]
                     /\ log[i - 1][3] # "error"
              /\ log[i][1] = "poll_and_finalize" =>
                     /\ \E j \in 1..(i - 1) : log[j] = <<"new_order", "", "ok">>
                     /\ \A d \in SeqSet(loc[p].authorizations) : Handled(log, d, i)
              /\ log[i][1] = "final_order" =>
                     /\ i > 1
                     /\ log[i - 1][1] = "poll_and_finalize"
                     /\ pc[p] \in {"issued", "raised", "notify"}
              /\ log[i] = <<"new_order", "", "error">> =>
                     /\ i = Len(log)
                     /\ pc[p] = "raised"

\* an attempt for two names that went through every step
C8_Witness ==
    \E p \in Procs :
        /\ InIssue(p) /\ pc[p] = "issued"
        /\ Len(loc[p].authorizations) = 2

\* C9: no two registrations share a directory URI, and a registration is only
\* made while none exists for the directory
C9_OneRegistrationPerDirectory ==
    /\ \A r1, r2 \in regs : r1.directory = r2.directory => r1 = r2
    /\ \A p \in Procs :
          pc[p] = "register" => registration_query(loc[p].acme_directory_uri) = {}

\* a creation whose lookup found the registration an earlier one made, while
\* another handler is under way
C9_Witness ==
    /\ \E p \in CertJobs :
          /\ InIssue(p)
          /\ \E i \in DOMAIN loc[p].log :
                 loc[p].log[i][1] = "acme.registration.query" /\ loc[p].log[i][3] = "found"
    /\ Running = 2
    /\ regs # {}

\* C10: a renewal run ends with an exception only when no record of the run
\* is left to be evaluated
C10_RunContinues ==
    (pc["renew"] = "raised") =>
        loc["renew"].run.i = Len(loc["renew"].run.certs)

-----------------------------------------------------------------------------
(* Claims about the renewal scheduler, checked under SpecRenew.            *)

\* C11: at most one run of renew_certs is under way at any time
C11_OneRenewalRun ==
    Cardinality({p \in RenewRuns : pc[p] # "idle"}) <= 1

\* the run fired at start is still issuing when the daily firing is due
C11_Witness ==
    /\ pc["renew_boot"] = "finalizing"
    /\ pc["renew"] = "idle"
    /\ now >= 1

\* the columns of a record a renewal may write
RenewedColumns == {"body", "acme_uri", "expire", "chain"}

\* C12: a renewal run issues for a record exactly when expire - now is less
\* than its renew_days, with the record's own directory and dns_mapping; its
\* update changes only certificate body, order URI, expiry and chain flag of
\* that record and no other record; and no due record of the run is left out
C12_RenewsExactlyTheDue ==
    [][\A p \in RenewRuns :
          /\ (pc[p] = "renew_loop" /\ pc'[p] \in {"renew_loop", "issue"}
                 /\ loc'[p].run.i = loc[p].run.i + 1) =>
                LET cert == loc[p].run.certs[loc'[p].run.i]
                IN  /\ pc'[p] = "issue" <=> cert.expire - now < cert.renew_days
                    /\ pc'[p] = "issue" =>
                          /\ loc'[p].csr_data = cert
                          /\ \E r \in regs : r.id = cert.acme
                                /\ r.directory = loc'[p].acme_directory_uri
                          /\ loc'[p].dns_mapping = cert.domains_authenticators
          /\ (pc[p] # "idle" /\ pc'[p] # pc[p] /\ certs' # certs) =>
                /\ pc[p] = "issued"
                /\ \E c \in certs :
                      /\ c.id = loc[p].csr_data.id /\ c.acme # NoId
                      /\ \E d \in certs' :
                            /\ certs' = (certs \ {c}) \cup {d}
                            /\ \A k \in DOMAIN c : k \notin RenewedColumns => d[k] = c[k]
          /\ (pc[p] # "raised" /\ pc'[p] = "raised") =>
                \A j \in DOMAIN loc'[p].run.certs :
                    j > loc'[p].run.i =>
                        ~(loc'[p].run.certs[j].expire - now < loc'[p].run.certs[j].renew_days)
      ]_vars

\* C13: the stored serial of an ACME-managed record is the serial of the
\* certificate the record holds, also after a renewal
C13_SerialFollowsRenewal ==
    \A c \in certs : c.acme # NoId => c.serial = c.body

-----------------------------------------------------------------------------
(* Validation on create and rename.  A name is a sequence of characters;   *)
(* "LF" stands for the line feed and "U+017F" for the long s.              *)

AsciiLower == {"a", "d", "e", "f", "g", "i", "l", "n", "p", "r", "s", "t", "u", "x"}
AsciiUpper == {"D", "E", "F", "G", "I", "L", "N", "S"}
AsciiDigits == {"7"}

\* case folding as re.I applies it to a character
Fold ==
    [c \in AsciiUpper \cup {"U+017F"} |->
        CASE c = "D" -> "d" [] c = "E" -> "e" [] c = "F" -> "f" [] c = "G" -> "g"
          [] c = "I" -> "i" [] c = "L" -> "l" [] c = "N" -> "n" [] c = "S" -> "s"
          [] c = "U+017F" -> "s"]

\* the character matches [a-z0-9_\-] under re.I
in_class(c) ==
    LET folded == IF c \in DOMAIN Fold THEN Fold[c] ELSE c
    IN  folded \in AsciiLower \cup AsciiDigits \cup {"_", "-"}

\* the name is one or more characters of [A-Za-z0-9_-] and nothing else
re_search_strict(cert_name) ==
    /\ Len(cert_name) > 0
    /\ \A i \in DOMAIN cert_name :
          cert_name[i] \in AsciiLower \cup AsciiUpper \cup AsciiDigits \cup {"_", "-"}

\* re.search(r'^[a-z0-9_\-]+$', cert_name or '', re.I): $ matches at the end
\* and also before a line feed that ends the string
re_search(cert_name) ==
    LET n == Len(cert_name)
        body == IF n > 0 /\ cert_name[n] = "LF" THEN SubSeq(cert_name, 1, n - 1)
                ELSE cert_name
    IN  /\ Len(body) > 0
        /\ \A i \in DOMAIN body : in_class(body[i])

\* the reserved keywords, as written in validate_cert_name
ReservedNames ==
    {<<"e", "x", "t", "e", "r", "n", "a", "l">>,
     <<"s", "e", "l", "f", "-", "s", "i", "g", "n", "e", "d">>,
     <<"e", "x", "t", "e", "r", "n", "a", "l", " ", "-", " ",
       "s", "i", "g", "n", "a", "t", "u", "r", "e", " ",
       "p", "e", "n", "d", "i", "n", "g">>}

\* validate_cert_name: the errors added under attribute `name` for cert_name,
\* given the rows of the service's own datastore
validate_cert_name(cert_name, rows, name) ==
    {<<name, "A certificate with this name already exists">> :
        x \in {r \in rows : r.name = cert_name}}
    \cup (IF cert_name \in ReservedNames
          THEN {<<name, "is a reserved internal keyword">>} ELSE {})
    \cup (IF ~re_search(cert_name)
          THEN {<<name, "Use alphanumeric characters, _ and -">>} ELSE {})

\* the two datastores and their rows
Rows(datastore) == IF datastore = "system.certificate" THEN certs ELSE cas
SchemaName(datastore) ==
    IF datastore = "system.certificate" THEN "certificate_create"
    ELSE "certificate_authority_create"

KeyLengths == {1024, 2048, 4096}
\* data.get('key_length') of a call that gives none
NoKeyLength == -1

\* _validate_common_attributes: one entry <<schema, field, message>> per check
\* that fails; the key is compared with the certificate only when neither
\* field has an entry yet
common_verrors(data, schema_name) ==
    LET fields ==
            (IF data.country = "invalid"
             THEN {<<schema_name, "country", "invalid country">>} ELSE {})
            \cup (IF data.certificate = "no match"
                  THEN {<<schema_name, "certificate", "Not a valid certificate">>} ELSE {})
            \cup (IF data.certificate = "not PEM"
                  THEN {<<schema_name, "certificate", "Certificate not in PEM format">>} ELSE {})
            \cup (IF data.privatekey = "invalid"
                  THEN {<<schema_name, "privatekey", "Please provide a valid private key">>}
                  ELSE {})
            \cup (IF data.key_length \notin {NoKeyLength, 0} /\ data.key_length \notin KeyLengths
                  THEN {<<schema_name, "key_length", "Key length must be a valid value">>}
                  ELSE {})
            \cup (IF data.signedby # NoId /\ ~valid_signing_ca(data.signedby)
                  THEN {<<schema_name, "signedby", "Please provide a valid signing authority">>}
                  ELSE {})
            \cup (IF data.CSR = "invalid"
                  THEN {<<schema_name, "CSR", "Please provide a valid CSR">>} ELSE {})
            \cup (IF data.csr_id # NoId /\ ~\E c \in certs : c.id = data.csr_id
                  THEN {<<schema_name, "csr_id", "Please provide a valid csr_id">>} ELSE {})
    IN  fields \cup
        (IF /\ data.certificate # "none" /\ data.privatekey # "none"
            /\ ~\E e \in fields : e[2] \in {"certificate", "privatekey"}
            /\ ~data.key_matches
         THEN {<<schema_name, "privatekey", "Private key does not match certificate">>}
         ELSE {})

\* the locals of one call of do_create
CreateCall(op, datastore, data) ==
    [op |-> op, datastore |-> datastore, data |-> data,
     verrors |-> {}, raised |-> {}, row |-> <<>>]

\* CertificateService.do_create / CertificateAuthorityService.do_create are
\* entered; only the certificate one is a job with a lock
do_create(p, datastore, data) ==
    /\ pc[p] = "idle"
    /\ IF datastore = "system.certificate"
       THEN /\ p \in CertJobs
            /\ "cert_create" \notin locks
            /\ locks' = locks \cup {"cert_create"}
       ELSE /\ p \in CaCalls
            /\ locks' = locks
    /\ pc' = [pc EXCEPT ![p] = "validate"]
    /\ loc' = [loc EXCEPT ![p] =
                 CreateCall(IF datastore = "system.certificate" THEN "certificate.create"
                            ELSE "certificateauthority.create", datastore, data)]
    /\ UNCHANGED <<storeVars, jobs, lastAlloc, acmeVars>>

\* do_create, lines 812-820 and 1285-1293: validate_common_attributes and
\* validate_cert_name fill one verrors, which is raised if it holds anything
create_validate(p) ==
    /\ pc[p] = "validate"
    /\ LET schema == SchemaName(loc[p].datastore)
           v == common_verrors(loc[p].data, schema)
                \cup {<<schema, "name", e[2]>> :
                        e \in validate_cert_name(loc[p].data.name, Rows(loc[p].datastore),
                                                 "name")}
       IN  IF v # {}
           THEN /\ pc' = [pc EXCEPT ![p] = "raised"]
                /\ loc' = [loc EXCEPT ![p].verrors = v, ![p].raised = v]
           ELSE /\ pc' = [pc EXCEPT ![p] = "strategy"]
                /\ loc' = loc
    /\ UNCHANGED <<storeVars, jobs, lastAlloc, locks, acmeVars>>

\* ---- PEM blobs: blocks, and what stands between them ----

Separators == {"NL", "SP"}
CorruptBlock == "bad"        \* PEM armour around bytes that do not decode
IsBlock(t) == t \notin Separators

\* RE_CERTIFICATE.findall: the pattern is one repeated group, so blocks with
\* nothing between them are one match, which yields its last block
RECURSIVE findall(_)
findall(blob) ==
    IF blob = <<>> THEN <<>>
    ELSE IF ~IsBlock(Head(blob)) THEN findall(Tail(blob))
    ELSE IF Len(blob) > 1 /\ IsBlock(blob[2]) THEN findall(Tail(blob))
    ELSE <<(<<Head(blob)>>)>> \o findall(Tail(blob))

\* crypto.load_certificate(FILETYPE_PEM, c): the first block of c, which must
\* decode and whose END line must end a line
RECURSIVE crypto_load_certificate(_)
crypto_load_certificate(c) ==
    IF c = <<>> THEN "Error"
    ELSE IF Head(c) = "NL" THEN crypto_load_certificate(Tail(c))
    ELSE IF Head(c) = "SP" \/ Head(c) = CorruptBlock THEN "Error"
    ELSE IF Len(c) > 1 /\ c[2] # "NL" THEN "Error"
    ELSE Head(c)

\* _get_instance finds the CA and, through cert_extend, every CA above it
RECURSIVE signing_chain_exists(_, _)
signing_chain_exists(ca_id, depth) ==
    /\ depth > 0
    /\ \E r \in cas :
          /\ r.id = ca_id
          /\ r.signedby # NoId => signing_chain_exists(r.signedby, depth - 1)

\* the create_type has what its own schema requires and its strategy reads
StrategyAccepts(data) ==
    CASE data.create_type \in {"CERTIFICATE_CREATE_INTERNAL", "CA_CREATE_INTERMEDIATE"} ->
             data.signedby # NoId /\ signing_chain_exists(data.signedby, Cardinality(cas))
      [] data.create_type = "CA_CREATE_IMPORTED" -> data.certificate = "valid"
      [] data.create_type = "CERTIFICATE_CREATE" ->
             /\ data.certificate = "valid"
             /\ IF data.csr_id # NoId
                THEN \E c \in certs : c.id = data.csr_id /\ c.type = CERT_TYPE_CSR
                ELSE data.privatekey # "none"
      [] OTHER -> TRUE

\* the row map_functions[create_type] returns, before it has an id
BuiltRow(data) ==
    LET row ==
        CASE data.create_type = "CERTIFICATE_CREATE_INTERNAL" ->
                 CertRow(NoId, CERT_TYPE_INTERNAL, get_serial_for_certificate(data.signedby),
                         data.signedby, TRUE, "a.example.com", <<>>)
          [] data.create_type = "CERTIFICATE_CREATE" ->
                 CertRow(NoId, CERT_TYPE_EXISTING, data.serial, NoId, TRUE,
                         "a.example.com", <<>>)
          [] data.create_type = "CERTIFICATE_CREATE_CSR" ->
                 CertRow(NoId, CERT_TYPE_CSR, NoSerial, NoId, FALSE, "a.example.com", <<>>)
          [] data.create_type = "CA_CREATE_INTERNAL" ->
                 CARow(NoId, CA_TYPE_INTERNAL, data.serial, NoId, TRUE)
          [] data.create_type = "CA_CREATE_IMPORTED" ->
                 CARow(NoId, CA_TYPE_EXISTING, data.serial, data.signedby,
                       data.privatekey = "valid")
          [] data.create_type = "CA_CREATE_INTERMEDIATE" ->
                 CARow(NoId, CA_TYPE_INTERMEDIATE, get_serial_for_certificate(data.signedby),
                       data.signedby, TRUE)
    IN  IF "pem" \in DOMAIN data
        THEN [name |-> data.name, pem |-> data.pem,
              chain |-> chain_flag(Len(findall(data.pem)))] @@ row
        ELSE [name |-> data.name] @@ row

\* (variant: a strategy that fails has already stored what it had built)
create_strategy_stores_early(p, ok) ==
    /\ pc[p] = "strategy"
    /\ ok => StrategyAccepts(loc[p].data)
    /\ IF ok
       THEN /\ pc' = [pc EXCEPT ![p] = "built"]
            /\ loc' = [loc EXCEPT ![p].row = BuiltRow(loc[p].data)]
            /\ UNCHANGED storeVars
       ELSE /\ Raise(p, {<<"strategy", loc[p].data.create_type, "">>})
            /\ IF loc[p].datastore = "system.certificate"
               THEN /\ certs' = certs \cup {[id |-> certNext, name |-> loc[p].data.name]}
                    /\ certNext' = certNext + 1
                    /\ UNCHANGED <<cas, caNext>>
               ELSE /\ cas' = cas \cup {[id |-> caNext, name |-> loc[p].data.name]}
                    /\ caNext' = caNext + 1
                    /\ UNCHANGED <<certs, certNext>>
    /\ UNCHANGED <<jobs, lastAlloc, locks, acmeVars>>

\* do_create, lines 824-827 and 1295-1298: map_functions[create_type] builds
\* the row in memory, or raises
create_strategy(p, ok) ==
    /\ pc[p] = "strategy"
    /\ ok => StrategyAccepts(loc[p].data)
    /\ IF ok
       THEN /\ pc' = [pc EXCEPT ![p] = "built"]
            /\ loc' = [loc EXCEPT ![p].row = BuiltRow(loc[p].data)]
       ELSE Raise(p, {<<"strategy", loc[p].data.create_type, "">>})
    /\ UNCHANGED <<storeVars, jobs, lastAlloc, locks, acmeVars>>

\* do_create, lines 829-849 and 1300-1315: datastore.insert of the built row
create_insert(p) ==
    /\ pc[p] = "built"
    /\ IF loc[p].datastore = "system.certificate"
       THEN /\ certs' = certs \cup {[loc[p].row EXCEPT !.id = certNext]}
            /\ certNext' = certNext + 1
            /\ UNCHANGED <<cas, caNext>>
       ELSE /\ cas' = cas \cup {[loc[p].row EXCEPT !.id = caNext]}
            /\ caNext' = caNext + 1
            /\ UNCHANGED <<certs, certNext>>
    /\ pc' = [pc EXCEPT ![p] = "notify"]
    /\ UNCHANGED <<jobs, lastAlloc, loc, locks, acmeVars>>

\* do_update, lines 1078-1084 and 1519-1536: the record is read and the new
\* name put into a copy; only the certificate one is a job with a lock
do_update(p, datastore, id, name) ==
    /\ pc[p] = "idle"
    /\ \E r \in Rows(datastore) : r.id = id
    /\ IF datastore = "system.certificate"
       THEN /\ p = "update"
            /\ "cert_update" \notin locks
            /\ locks' = locks \cup {"cert_update"}
       ELSE /\ p \in CaCalls
            /\ locks' = locks
    /\ pc' = [pc EXCEPT ![p] = "update_validate"]
    /\ loc' = [loc EXCEPT ![p] =
                 [op |-> IF datastore = "system.certificate" THEN "certificate.update"
                         ELSE "certificateauthority.update",
                  datastore |-> datastore, id |-> id,
                  old |-> CHOOSE r \in Rows(datastore) : r.id = id,
                  data |-> [name |-> name], raised |-> {}]]
    /\ UNCHANGED <<storeVars, jobs, lastAlloc, acmeVars>>

\* do_update, lines 1086-1093 and 1538-1545: a changed name is validated
update_validate(p) ==
    /\ pc[p] = "update_validate"
    /\ IF loc[p].data.name = loc[p].old.name
       THEN /\ pc' = [pc EXCEPT ![p] = "idle"]
            /\ loc' = [loc EXCEPT ![p] = Idle]
            /\ locks' = locks \ {LockOf(loc[p].op)}
       ELSE LET v == validate_cert_name(loc[p].data.name, Rows(loc[p].datastore), "name")
            IN  /\ IF v # {} THEN Raise(p, v)
                   ELSE /\ pc' = [pc EXCEPT ![p] = "update_write"]
                        /\ loc' = loc
                /\ locks' = locks
    /\ UNCHANGED <<storeVars, jobs, lastAlloc, acmeVars>>

\* variant: the update writes and returns without starting ix-ssl
update_write_silent(p) ==
    /\ pc[p] = "update_write"
    /\ LET new == [loc[p].old EXCEPT !.name = loc[p].data.name]
           write(rows) == {IF r.id = loc[p].id THEN new ELSE r : r \in rows}
       IN  IF loc[p].datastore = "system.certificate"
           THEN certs' = write(certs) /\ cas' = cas
           ELSE cas' = write(cas) /\ certs' = certs
    /\ pc' = [pc EXCEPT ![p] = "idle"]
    /\ loc' = [loc EXCEPT ![p] = Idle]
    /\ locks' = locks \ {LockOf(loc[p].op)}
    /\ UNCHANGED <<caNext, certNext, jobs, lastAlloc, acmeVars>>

\* (variant: the update of a CA also writes its own id into signedby)
update_write_signedby(p) ==
    /\ pc[p] = "update_write"
    /\ LET new == [loc[p].old EXCEPT !.name = loc[p].data.name]
           write(rows) == {IF r.id = loc[p].id THEN new ELSE r : r \in rows}
       IN  IF loc[p].datastore = "system.certificate"
           THEN certs' = write(certs) /\ cas' = cas
           ELSE cas' = {IF r.id = loc[p].id THEN [new EXCEPT !.signedby = r.id] ELSE r :
                           r \in cas} /\ certs' = certs
    /\ pc' = [pc EXCEPT ![p] = "notify"]
    /\ UNCHANGED <<caNext, certNext, jobs, lastAlloc, loc, locks, acmeVars>>

\* do_update, lines 1097-1104 and 1545-1552: datastore.update writes the copy
update_write(p) ==
    /\ pc[p] = "update_write"
    /\ LET new == [loc[p].old EXCEPT !.name = loc[p].data.name]
           write(rows) == {IF r.id = loc[p].id THEN new ELSE r : r \in rows}
       IN  IF loc[p].datastore = "system.certificate"
           THEN certs' = write(certs) /\ cas' = cas
           ELSE cas' = write(cas) /\ certs' = certs
    /\ pc' = [pc EXCEPT ![p] = "notify"]
    /\ UNCHANGED <<caNext, certNext, jobs, lastAlloc, loc, locks, acmeVars>>

\* the persistence collaborator's delete: the record of that kind and id goes
datastore_delete_row(rows, id) == {r \in rows : r.id # id}

\* CertificateAuthorityService.do_delete: datastore.delete of the CA row, with
\* no lock and no look at the records the CA has signed
ca_do_delete(p, id) ==
    /\ pc[p] = "idle"
    /\ \E r \in cas : r.id = id
    /\ cas' = datastore_delete_row(cas, id)
    /\ pc' = [pc EXCEPT ![p] = "notify"]
    /\ loc' = [loc EXCEPT ![p] = [op |-> "certificateauthority.delete", id |-> id]]
    /\ UNCHANGED <<certs, caNext, certNext, jobs, lastAlloc, locks, acmeVars>>

\* ---- the calls made of create, rename and delete ----

CreateData(name, create_type, certificate, privatekey, key_length, signedby, csr_id) ==
    [name |-> name, create_type |-> create_type, country |-> "valid",
     certificate |-> certificate, privatekey |-> privatekey, key_matches |-> TRUE,
     key_length |-> key_length, signedby |-> signedby, CSR |-> "none", csr_id |-> csr_id,
     serial |-> IF certificate = "valid" \/ create_type = "CA_CREATE_INTERNAL"
                THEN 7 ELSE NoSerial]

CreateNames == {<<"a">>}
RenameNames == {<<"a">>, <<"d">>}
SignedbyArgs == {NoId, 1}

CertificateCreates ==
    {CreateData(n, "CERTIFICATE_CREATE_INTERNAL", "none", "none", 2048, s, NoId) :
        n \in CreateNames, s \in SignedbyArgs}
    \cup {CreateData(n, "CERTIFICATE_CREATE", "valid", k, NoKeyLength, NoId, NoId) :
            n \in CreateNames, k \in {"valid", "none"}}
    \cup {CreateData(n, "CERTIFICATE_CREATE_CSR", "none", "none", k, NoId, NoId) :
            n \in CreateNames, k \in {2048, 512}}

AuthorityCreates ==
    {CreateData(n, "CA_CREATE_INTERNAL", "none", "none", 2048, NoId, NoId) :
        n \in CreateNames}
    \cup {CreateData(n, "CA_CREATE_IMPORTED", "valid", k, NoKeyLength, NoId, NoId) :
            n \in CreateNames, k \in {"valid", "none"}}
    \cup {CreateData(n, "CA_CREATE_INTERMEDIATE", "none", "none", 2048, s, NoId) :
            n \in CreateNames, s \in SignedbyArgs}

MaxCalls == 1        \* create and rename calls under way at once

NextCreate ==
    \/ \E p \in CertJobs, data \in CertificateCreates :
          /\ certNext <= MaxCerts
          /\ Running < MaxCalls
          /\ do_create(p, "system.certificate", data)
    \/ \E p \in CaCalls, data \in AuthorityCreates :
          /\ caNext <= MaxCAs
          /\ Running < MaxCalls
          /\ do_create(p, "system.certificateauthority", data)
    \/ \E p \in CertJobs \cup CaCalls : create_validate(p)
    \/ \E p \in CertJobs \cup CaCalls, ok \in BOOLEAN : create_strategy(p, ok)
    \/ \E p \in CertJobs \cup CaCalls : create_insert(p)
    \/ \E r \in certs, n \in RenameNames :
          Running < MaxCalls /\ do_update("update", "system.certificate", r.id, n)
    \/ \E p \in CaCalls, r \in cas, n \in RenameNames :
          Running < MaxCalls /\ do_update(p, "system.certificateauthority", r.id, n)
    \/ \E p \in CaCalls \cup {"update"} : update_validate(p)
    \/ \E p \in CaCalls \cup {"update"} : update_write(p)
    \/ \E p \in CertJobs \cup CaCalls \cup {"update"} : job_raise(p)
    \/ \E p \in CaCalls, r \in cas : ca_do_delete(p, r.id)
    \/ \E p \in CertJobs \cup CaCalls \cup {"update"} : service_start(p)

SpecCreate == Init /\ [][NextCreate]_vars

\* ---- creation is all or nothing ----

CreateOps == {"certificate.create", "certificateauthority.create", "CERTIFICATE_CREATE_ACME"}

\* p takes a step of a create call
CreateStep(p) ==
    /\ pc'[p] # pc[p]
    /\ \/ pc[p] # "idle" /\ loc[p].op \in CreateOps
       \/ pc'[p] # "idle" /\ loc'[p].op \in CreateOps

\* the step adds exactly one row, under a new id, to one of the two stores
OneInsert(old, new, other) ==
    /\ UNCHANGED other
    /\ \E row \in new \ old :
          /\ new = old \cup {row}
          /\ {"id", "type", "serial", "signedby"} \subseteq DOMAIN row
          /\ row.id # NoId
          /\ \A r \in old : r.id # row.id

C17_NamesUniqueAcrossStores ==
    /\ \A r1 \in certs, r2 \in cas : r1.name # r2.name
    /\ \A r1, r2 \in certs : r1.name = r2.name => r1 = r2
    /\ \A r1, r2 \in cas : r1.name = r2.name => r1 = r2

\* C18: every record with a signing-CA reference points to a CA that exists
\* and has a certificate and a private key
C18_SigningCaValid ==
    \A r \in certs \cup cas : r.signedby # NoId => valid_signing_ca(r.signedby)

\* ---- validation applied to every kind of call ----

NameInputs ==
    {<<>>, <<"a">>, <<"d">>, <<"S", "7", "_", "-">>,
     <<"a", "LF">>, <<"LF">>, <<"a", " ">>, <<"U+017F">>,
     <<"E", "x", "t", "e", "r", "n", "a", "l">>,
     <<"S", "E", "L", "F", "-", "S", "I", "G", "N", "E", "D">>}
    \cup ReservedNames

ValidateInputs ==
    {[name |-> n, create_type |-> "CERTIFICATE_CREATE", country |-> co, certificate |-> ce,
      privatekey |-> k, key_matches |-> m, key_length |-> kl, signedby |-> s,
      CSR |-> csr, csr_id |-> ci, serial |-> 7] :
        n \in NameInputs, co \in {"valid", "invalid"},
        ce \in {"none", "valid", "no match", "not PEM"},
        k \in {"none", "valid", "invalid"}, m \in BOOLEAN,
        kl \in {NoKeyLength, 0, 512, 2048}, s \in {NoId, 1, 2},
        csr \in {"none", "invalid"}, ci \in {NoId, 5}}

\* a store as creates leave it: a CA that can sign, a CA with no private key,
\* a certificate request
InitValidate ==
    /\ cas = {[name |-> <<"d">>] @@ CARow(1, CA_TYPE_INTERNAL, 7, NoId, TRUE),
              [name |-> <<"e">>] @@ CARow(2, CA_TYPE_EXISTING, 7, NoId, FALSE)}
    /\ certs = {[name |-> <<"a">>] @@
                 CertRow(1, CERT_TYPE_CSR, NoSerial, NoId, FALSE, "a.example.com", <<>>)}
    /\ caNext = 3
    /\ certNext = 2
    /\ jobs = <<>>
    /\ lastAlloc = NoAlloc
    /\ pc = [p \in Procs |-> "idle"]
    /\ loc = [p \in Procs |-> Idle]
    /\ locks = {}
    /\ regs = {}
    /\ regNext = 1
    /\ now = 0

NextValidate ==
    \/ /\ Running < MaxCalls
       /\ \E data \in ValidateInputs : do_create("create1", "system.certificate", data)
    \/ /\ Running < MaxCalls
       /\ \E data \in ValidateInputs :
             do_create("cacreate1", "system.certificateauthority", data)
    \/ \E p \in {"create1", "cacreate1"} : create_validate(p)
    \/ /\ Running < MaxCalls
       /\ \E r \in certs, n \in NameInputs :
             do_update("update", "system.certificate", r.id, n)
    \/ /\ Running < MaxCalls
       /\ \E r \in cas, n \in NameInputs :
             do_update("cacreate2", "system.certificateauthority", r.id, n)
    \/ \E p \in {"update", "cacreate2"} : update_validate(p)
    \/ \E p \in {"create1", "cacreate1", "update", "cacreate2"} : job_raise(p)

SpecValidate == InitValidate /\ [][NextValidate]_vars

\* the ASCII lower case of a name
Lower(cert_name) ==
    [i \in DOMAIN cert_name |->
        IF cert_name[i] \in AsciiUpper THEN Fold[cert_name[i]] ELSE cert_name[i]]

\* the fields of a create call that the cross-field rules find at fault
Offending(data, rows) ==
    (IF \/ ~re_search_strict(data.name)
        \/ data.name \in ReservedNames
        \/ \E r \in rows : r.name = data.name THEN {"name"} ELSE {})
    \cup (IF data.country = "invalid" THEN {"country"} ELSE {})
    \cup (IF data.certificate \in {"no match", "not PEM"} THEN {"certificate"} ELSE {})
    \cup (IF \/ data.privatekey = "invalid"
             \/ data.certificate = "valid" /\ data.privatekey = "valid" /\ ~data.key_matches
          THEN {"privatekey"} ELSE {})
    \cup (IF data.CSR = "invalid" THEN {"CSR"} ELSE {})
    \cup (IF data.signedby # NoId /\ ~valid_signing_ca(data.signedby)
          THEN {"signedby"} ELSE {})
    \cup (IF data.key_length # NoKeyLength /\ data.key_length \notin KeyLengths
          THEN {"key_length"} ELSE {})
    \cup (IF data.csr_id # NoId /\ ~\E c \in certs : c.id = data.csr_id
          THEN {"csr_id"} ELSE {})

\* C14: a create reaches its strategy only when no field is at fault, and the
\* aggregate error it raises otherwise has an entry for every field at fault
C14_ValidationAggregatesAll ==
    \A p \in {"create1", "cacreate1"} :
        /\ pc[p] = "strategy" => Offending(loc[p].data, Rows(loc[p].datastore)) = {}
        /\ pc[p] = "raised" =>
              \A f \in Offending(loc[p].data, Rows(loc[p].datastore)) :
                  \E e \in loc[p].raised : e[2] = f

\* C16: a name that passes validation, on create or on rename, is made of
\* [A-Za-z0-9_-] only, is not empty and is no reserved token in any letter case
C16_NameFormatEnforced ==
    \A p \in Procs :
        pc[p] \in {"strategy", "update_write"} =>
            /\ re_search_strict(loc[p].data.name)
            /\ Lower(loc[p].data.name) \notin ReservedNames

\* ---- the enriched read view ----

AcmeKeys == {"acme", "acme_uri", "domains_authenticators", "renew_days"}

\* the dict datastore.query hands to cert_extend: the columns of the row, san
\* still the one string it is stored as
datastore_query_row(r) == [r EXCEPT !.san = <<"str", r.san>>]

\* dict.pop of each of the keys
Pop(cert, keys) == [k \in DOMAIN cert \ keys |-> cert[k]]

\* cert.get('acme') is falsy
not_acme(cert) == "acme" \notin DOMAIN cert \/ cert.acme = NoId

\* cert['certificate'] of a row
Blob(cert) ==
    IF "pem" \in DOMAIN cert THEN cert.pem
    ELSE IF ~cert.certificate THEN <<>>
    ELSE IF "chain" \in DOMAIN cert /\ cert.chain THEN <<"c1", "NL", "c2">>
    ELSE <<"c1">>

\* the labels at which the walk up the signing CAs stops
TerminalLabels == {"external", "self-signed", "external - signature pending"}

\* cert_issuer, lines 273-283: a label, or the signing CA (here its id, NoId
\* for None) for an internal certificate and an intermediate CA
cert_issuer(cert) ==
    IF cert.type \in {CA_TYPE_EXISTING, CERT_TYPE_EXISTING} THEN <<"label", "external">>
    ELSE IF cert.type = CA_TYPE_INTERNAL THEN <<"label", "self-signed">>
    ELSE IF cert.type \in {CERT_TYPE_INTERNAL, CA_TYPE_INTERMEDIATE}
         THEN <<"signedby", cert.signedby>>
    ELSE <<"label", "external - signature pending">>

\* (variant: only the certificate of the direct signing CA is taken)
RECURSIVE signing_certificates_parent_only(_, _)
signing_certificates_parent_only(ca_id, depth) ==
    IF ca_id = NoId \/ depth = 0 \/ ~\E ca \in cas : ca.id = ca_id THEN <<>>
    ELSE <<Blob(CHOOSE r \in cas : r.id = ca_id)>>

\* cert_extend, lines 291-298: the certificate of each signing CA, upwards,
\* until cert_issuer gives a terminal label or None
RECURSIVE signing_certificates(_, _)
signing_certificates(ca_id, depth) ==
    IF ca_id = NoId \/ depth = 0 \/ ~\E ca \in cas : ca.id = ca_id THEN <<>>
    ELSE LET ca == CHOOSE r \in cas : r.id = ca_id
         IN  <<Blob(ca)>> \o
             (IF cert_issuer(ca)[1] = "signedby"
              THEN signing_certificates(cert_issuer(ca)[2], depth - 1) ELSE <<>>)

\* cert_extend, lines 287-298: the list `certs`
links(cert) ==
    IF cert.chain THEN findall(Blob(cert))
    ELSE <<Blob(cert)>> \o
         (IF cert_issuer(cert)[1] = "signedby"
          THEN signing_certificates(cert_issuer(cert)[2], Cardinality(cas)) ELSE <<>>)

\* (variant: the try is around each link, a link that fails is skipped)
RECURSIVE load_links_skipping(_)
load_links_skipping(blobs) ==
    IF blobs = <<>> THEN <<>>
    ELSE IF Head(blobs) = <<>> \/ crypto_load_certificate(Head(blobs)) = "Error"
         THEN load_links_skipping(Tail(blobs))
         ELSE <<crypto_load_certificate(Head(blobs))>> \o load_links_skipping(Tail(blobs))

\* cert_extend, lines 300-312: one try around the whole loop, so the first
\* link that fails ends it; chain_list keeps what was appended before
RECURSIVE load_links(_)
load_links(blobs) ==
    IF blobs = <<>> THEN <<>>
    ELSE IF Head(blobs) = <<>> THEN load_links(Tail(blobs))
    ELSE IF crypto_load_certificate(Head(blobs)) = "Error" THEN <<>>
    ELSE <<crypto_load_certificate(Head(blobs))>> \o load_links(Tail(blobs))

\* crypto.load_certificate_request(cert['CSR']) succeeds
csr_loads(cert) == cert.CSR # <<>> /\ ("csr_ok" \in DOMAIN cert => cert.csr_ok)

\* cert_extend, lines 328-337, outside every try: the exception raised, if any
read_raises(cert) ==
    IF cert.type = CERT_TYPE_CSR
    THEN IF csr_loads(cert) THEN "none" ELSE "UnboundLocalError"
    ELSE IF load_links(links(cert)) # <<>> /\ crypto_load_certificate(Blob(cert)) = "Error"
         THEN "crypto.Error" ELSE "none"

\* what cert_extend adds for every record
derived(cert) ==
    [root_path |-> IF cert.type \in {CA_TYPE_EXISTING, CA_TYPE_INTERNAL, CA_TYPE_INTERMEDIATE}
                   THEN "CERT_CA_ROOT_PATH" ELSE "CERT_ROOT_PATH",
     issuer |-> cert_issuer(cert),
     internal |-> IF cert.type \in {CA_TYPE_EXISTING, CERT_TYPE_EXISTING} THEN "NO" ELSE "YES",
     chain_list |-> load_links(links(cert))]

\* (variant: the ACME keys stay in the view of every record)
cert_extend_keeps_keys(cert) ==
    IF cert.signedby # NoId /\ ~\E ca \in cas : ca.id = cert.signedby
    THEN [raised |-> "MatchNotFound"]
    ELSE IF cert.san[1] = "list" /\ cert.san[2] # <<>>
         THEN [raised |-> "AttributeError"]
         ELSE IF read_raises(cert) # "none" THEN [raised |-> read_raises(cert)]
         ELSE derived(cert) @@ [cert EXCEPT !.san = <<"list", cert.san[2]>>]

\* cert_extend: the view of one record, or the exception it raises
cert_extend(cert) ==
    IF cert.signedby # NoId /\ ~\E ca \in cas : ca.id = cert.signedby
    THEN [raised |-> "MatchNotFound"]
    ELSE IF not_acme(cert) /\ ~(AcmeKeys \subseteq DOMAIN cert)
         THEN [raised |-> "KeyError"]
         ELSE LET kept == IF not_acme(cert) THEN Pop(cert, AcmeKeys) ELSE cert
              IN  IF kept.san[1] = "list" /\ kept.san[2] # <<>>
                  THEN [raised |-> "AttributeError"]
                  ELSE IF read_raises(kept) # "none" THEN [raised |-> read_raises(kept)]
                  ELSE derived(kept) @@ [kept EXCEPT !.san = <<"list", kept.san[2]>>]

\* certificate.query of one record: the row goes through cert_extend
certificate_query(p, id) ==
    /\ pc[p] = "idle"
    /\ \E r \in certs : r.id = id
    /\ pc' = [pc EXCEPT ![p] = "read"]
    /\ loc' = [loc EXCEPT ![p] =
                 [op |-> "certificate.query",
                  row |-> CHOOSE r \in certs : r.id = id,
                  view |-> cert_extend(datastore_query_row(CHOOSE r \in certs : r.id = id)),
                  again |-> <<>>]]
    /\ UNCHANGED <<storeVars, jobs, lastAlloc, locks, acmeVars>>

\* cert_extend applied to a view it has returned
cert_extend_again(p) ==
    /\ pc[p] = "read"
    /\ pc' = [pc EXCEPT ![p] = "read_again"]
    /\ loc' = [loc EXCEPT ![p].again = cert_extend(loc[p].view)]
    /\ UNCHANGED <<storeVars, jobs, lastAlloc, locks, acmeVars>>

query_return(p) ==
    /\ pc[p] \in {"read", "read_again"}
    /\ pc' = [pc EXCEPT ![p] = "idle"]
    /\ loc' = [loc EXCEPT ![p] = Idle]
    /\ UNCHANGED <<storeVars, jobs, lastAlloc, locks, acmeVars>>

\* rows as the create strategies and renewal leave them
ExtendRows ==
    {CertRow(1, CERT_TYPE_CSR, NoSerial, NoId, FALSE, "a.example.com", <<"b.example.com">>),
     CertRow(2, CERT_TYPE_INTERNAL, 8, 1, TRUE, "a.example.com", <<>>),
     CertRow(3, CERT_TYPE_EXISTING, 7, NoId, TRUE, "a.example.com", <<>>),
     [CertRow(4, CERT_TYPE_EXISTING, 11, NoId, TRUE, "a.example.com", <<>>)
        EXCEPT !.acme = 1, !.CSR = <<"a.example.com">>,
               !.domains_authenticators = [d \in {"a.example.com"} |-> 1],
               !.expire = 1, !.renew_days = 2, !.acme_uri = 11, !.chain = TRUE],
     [CertRow(5, CERT_TYPE_EXISTING, 11, NoId, TRUE, "a.example.com", <<>>)
        EXCEPT !.acme = 1, !.CSR = <<"a.example.com">>,
               !.domains_authenticators = [d \in {"a.example.com"} |-> 2],
               !.expire = 2, !.renew_days = 2, !.acme_uri = 12, !.chain = TRUE]}

InitExtend ==
    /\ cas = {CARow(1, CA_TYPE_INTERNAL, 7, NoId, TRUE)}
    /\ certs \in SUBSET ExtendRows
    /\ caNext = 2
    /\ certNext = 6
    /\ jobs = <<>>
    /\ lastAlloc = NoAlloc
    /\ pc = [p \in Procs |-> "idle"]
    /\ loc = [p \in Procs |-> Idle]
    /\ locks = {}
    /\ regs = {[id |-> 1, directory |-> "https://acme.test/directory"]}
    /\ regNext = 2
    /\ now = 0

NextExtend ==
    \/ \E r \in certs : certificate_query("query", r.id)
    \/ cert_extend_again("query")
    \/ query_return("query")

SpecExtend == InitExtend /\ [][NextExtend]_vars

\* C19: the view of a record holds the ACME-only attributes exactly when the
\* record is ACME-issued
C19_AcmeKeysIffAcme ==
    \A p \in Procs :
        pc[p] = "read" =>
            /\ "raised" \notin DOMAIN loc[p].view
            /\ IF loc[p].row.acme # NoId
               THEN AcmeKeys \subseteq DOMAIN loc[p].view
               ELSE AcmeKeys \cap DOMAIN loc[p].view = {}

\* an ACME-issued record has been read, with its ACME attributes in the view,
\* from a store that also holds a record of another kind
C19_Witness ==
    /\ pc["query"] = "read"
    /\ loc["query"].row.acme # NoId
    /\ AcmeKeys \subseteq DOMAIN loc["query"].view
    /\ \E r \in certs : r.acme = NoId

\* C20: cert_extend applied to a view it returned succeeds and returns that
\* view
C20_ExtendIdempotent ==
    \A p \in Procs : pc[p] = "read_again" => loc[p].again = loc[p].view

\* ---- reads of records whose stored blobs may be corrupt ----

\* a row as stored, with the blocks of its certificate blob spelled out
WithPem(row, pem, chain) == [pem |-> pem] @@ [row EXCEPT !.chain = chain]

ReadRows ==
    {\* a certificate request whose CSR blob parses, and one whose does not
     [csr_ok |-> TRUE] @@
        CertRow(1, CERT_TYPE_CSR, NoSerial, NoId, FALSE, "a.example.com", <<>>),
     [csr_ok |-> FALSE] @@
        CertRow(2, CERT_TYPE_CSR, NoSerial, NoId, FALSE, "a.example.com", <<>>),
     \* imported chains: sound, corrupt in the middle, corrupt at the start
     WithPem(CertRow(3, CERT_TYPE_EXISTING, 7, NoId, TRUE, "a.example.com", <<>>),
             <<"c1", "NL", "c2", "NL", "c3">>, TRUE),
     WithPem(CertRow(4, CERT_TYPE_EXISTING, 7, NoId, TRUE, "a.example.com", <<>>),
             <<"c1", "NL", CorruptBlock, "NL", "c3">>, TRUE),
     WithPem(CertRow(5, CERT_TYPE_EXISTING, 7, NoId, TRUE, "a.example.com", <<>>),
             <<CorruptBlock, "NL", "c2">>, TRUE),
     \* one imported certificate that does not decode
     WithPem(CertRow(6, CERT_TYPE_EXISTING, 7, NoId, TRUE, "a.example.com", <<>>),
             <<CorruptBlock>>, FALSE),
     \* an internal certificate under the intermediate CA 2
     WithPem(CertRow(7, CERT_TYPE_INTERNAL, 9, 2, TRUE, "a.example.com", <<>>),
             <<"c7">>, FALSE)}

\* the root CA 1 and the intermediate CA 2 under it, whose blob may be corrupt
ReadAuthorities ==
    {{[pem |-> <<"ca1">>] @@ CARow(1, CA_TYPE_INTERNAL, 7, NoId, TRUE),
      [pem |-> <<b>>] @@ CARow(2, CA_TYPE_INTERMEDIATE, 8, 1, TRUE)} :
        b \in {"ca2", CorruptBlock}}

InitRead ==
    /\ cas \in ReadAuthorities
    /\ certs \in SUBSET ReadRows
    /\ caNext = 3
    /\ certNext = 8
    /\ jobs = <<>>
    /\ lastAlloc = NoAlloc
    /\ pc = [p \in Procs |-> "idle"]
    /\ loc = [p \in Procs |-> Idle]
    /\ locks = {}
    /\ regs = {}
    /\ regNext = 1
    /\ now = 0

NextRead ==
    \/ \E r \in certs : certificate_query("query", r.id)
    \/ query_return("query")

SpecRead == InitRead /\ [][NextRead]_vars

\* C21: reading a record never fails because one stored blob is corrupt:
\* cert_extend returns a view for every record
C21_ReadNeverRaises ==
    \A p \in Procs : pc[p] = "read" => "raised" \notin DOMAIN loc[p].view

\* C22: chain_list holds every link of the chain that parses, in order; only
\* the links that do not parse are left out
C22_OnlyCorruptLinkOmitted ==
    \A p \in Procs :
        (pc[p] = "read" /\ "raised" \notin DOMAIN loc[p].view) =>
            loc[p].view.chain_list = load_links_skipping(links(loc[p].row))

\* ---- the walk up the signing-CA references, one call at a time ----

MaxWalk == 4         \* nested calls of one walk

WalkOps == {"get_serial_for_certificate", "cert_extend"}

\* get_serial_for_certificate(ca_id) is called, or a CA row is handed to
\* cert_extend
walk_start(p, op, ca_id) ==
    /\ pc[p] = "idle"
    /\ \E r \in cas : r.id = ca_id
    /\ pc' = [pc EXCEPT ![p] = "walk"]
    /\ loc' = [loc EXCEPT ![p] = [op |-> op, at |-> ca_id, callers |-> <<>>]]
    /\ UNCHANGED <<storeVars, jobs, lastAlloc, locks, acmeVars>>

\* lines 1199-1203 and 229-243: the CA has a signedby, so the same function is
\* called for that CA; nothing is remembered of the CAs already seen
walk_step(p) ==
    /\ pc[p] = "walk"
    /\ Len(loc[p].callers) < MaxWalk
    /\ \E r \in cas :
          /\ r.id = loc[p].at
          /\ r.signedby # NoId
          /\ loc' = [loc EXCEPT ![p].at = r.signedby,
                                ![p].callers = Append(loc[p].callers, r.id)]
    /\ UNCHANGED <<storeVars, jobs, lastAlloc, pc, locks, acmeVars>>

\* the CA has no signedby (the calls return), or is missing (the query raises)
walk_return(p) ==
    /\ pc[p] = "walk"
    /\ \A r \in cas : r.id = loc[p].at => r.signedby = NoId
    /\ pc' = [pc EXCEPT ![p] = "idle"]
    /\ loc' = [loc EXCEPT ![p] = Idle]
    /\ UNCHANGED <<storeVars, jobs, lastAlloc, locks, acmeVars>>

WalkIds == {1, 2, 3}

\* three CAs with every assignment of signedby, those with a cycle included
InitWalk ==
    /\ \E signedby \in [WalkIds -> WalkIds \cup {NoId}] :
          cas = {CARow(id, IF signedby[id] = NoId THEN CA_TYPE_INTERNAL
                           ELSE CA_TYPE_INTERMEDIATE, 7, signedby[id], TRUE) :
                   id \in WalkIds}
    /\ certs = {}
    /\ caNext = 4
    /\ certNext = 1
    /\ jobs = <<>>
    /\ lastAlloc = NoAlloc
    /\ pc = [p \in Procs |-> "idle"]
    /\ loc = [p \in Procs |-> Idle]
    /\ locks = {}
    /\ regs = {}
    /\ regNext = 1
    /\ now = 0

NextWalk ==
    \/ \E op \in WalkOps, id \in WalkIds : walk_start("query", op, id)
    \/ walk_step("query")
    \/ walk_return("query")

SpecWalk == InitWalk /\ [][NextWalk]_vars

\* C23: a walk up the signing references never comes to a CA it has already
\* been at, whatever the stored references are
C23_WalkVisitsOnce ==
    \A p \in Procs :
        pc[p] = "walk" =>
            \A i \in DOMAIN loc[p].callers : loc[p].callers[i] # loc[p].at

\* ---- imports of PEM blobs ----

MaxBlobLen == 4      \* blocks and separators in one imported blob

PemTokens == {"c1", "c2", CorruptBlock} \cup Separators
PemInputs == UNION {[1..n -> PemTokens] : n \in 0..MaxBlobLen}

\* what _validate_common_attributes finds of data['certificate']
certificate_status(blob) ==
    IF blob = <<>> THEN "none"
    ELSE IF findall(blob) = <<>> THEN "no match"
    ELSE IF crypto_load_certificate(blob) = "Error" THEN "not PEM"
    ELSE "valid"

ImportData(create_type, blob) ==
    [pem |-> blob] @@
    CreateData(<<"a">>, create_type, certificate_status(blob), "valid", NoKeyLength,
               NoId, NoId)

NextChain ==
    \/ /\ certs = {} /\ cas = {} /\ Running < MaxCalls
       /\ \/ \E blob \in PemInputs :
                do_create("create1", "system.certificate",
                          ImportData("CERTIFICATE_CREATE", blob))
          \/ \E blob \in PemInputs :
                do_create("cacreate1", "system.certificateauthority",
                          ImportData("CA_CREATE_IMPORTED", blob))
          \/ do_create("create1", "system.certificate",
                       CreateData(<<"a">>, "CERTIFICATE_CREATE_CSR", "none", "none", 2048,
                                  NoId, NoId))
          \/ do_create("cacreate1", "system.certificateauthority",
                       CreateData(<<"a">>, "CA_CREATE_INTERNAL", "none", "none", 2048,
                                  NoId, NoId))
    \/ \E p \in {"create1", "cacreate1"} : create_validate(p)
    \/ \E p \in {"create1", "cacreate1"} : create_strategy(p, TRUE)
    \/ \E p \in {"create1", "cacreate1"} : create_insert(p)
    \/ \E p \in {"create1", "cacreate1"} : job_raise(p)
    \/ \E p \in {"create1", "cacreate1"} : service_start(p)
    \/ \E r \in certs : certificate_query("query", r.id)
    \/ query_return("query")

SpecChain == Init /\ [][NextChain]_vars

\* the PEM blocks of a blob
RECURSIVE NumBlocks(_)
NumBlocks(blob) ==
    IF blob = <<>> THEN 0
    ELSE (IF IsBlock(Head(blob)) THEN 1 ELSE 0) + NumBlocks(Tail(blob))

C25_RevokeThenDelete ==
    [][\A p \in {"delete"} :
          /\ (pc[p] = "idle" /\ pc'[p] # "idle") =>
                LET cert == CHOOSE c \in certs : c.id = loc'[p].run.id
                IN  pc'[p] = IF cert.acme # NoId THEN "get_client" ELSE "delete"
          /\ (pc[p] = "client" /\ pc'[p] # "client") =>
                LET outcome == loc'[p].log[Len(loc'[p].log)]
                IN  /\ outcome[1] = "revoke"
                    /\ UNCHANGED certs
                    /\ pc'[p] = IF outcome[3] # "ok" /\ ~loc[p].run.force
                                THEN "raised" ELSE "delete"
          /\ (pc[p] = "raised" /\ pc'[p] # "raised") => UNCHANGED certs
          /\ (pc[p] = "delete" /\ pc'[p] # "delete") =>
                certs' = {c \in certs : c.id # loc[p].run.id}]_vars

(***************************************************************************)
(* The ix-ssl restart after a store write                                  *)
(***************************************************************************)

MutatingOps ==
    CreateOps \cup {"certificate.update", "certificateauthority.update",
                    "do_delete", "certificateauthority.delete"}

\* p returns from a create, update or delete without having raised
Returns(p) ==
    /\ pc[p] \notin {"idle", "raised"}
    /\ pc'[p] = "idle"
    /\ loc[p].op \in MutatingOps

AcmeNetworkStages == {"register", "client", "authorizations", "answer", "finalizing"}

\* C27: a handler that waits on the ACME directory or the DNS provider does
\* not hold its create, delete or renewal lock meanwhile, so another creation
\* can take the create lock while an ACME creation waits
C27_NoLockWhileWaiting ==
    \A p \in Procs :
        pc[p] \in AcmeNetworkStages => LockOf(loc[p].op) \notin locks

(***************************************************************************)
(* Subject alternative names: from the request or the imported PEM to the  *)
(* stored column and back to the view.  A string is a sequence of          *)
(* characters here.                                                        *)
(***************************************************************************)

MaxSan == 2

\* two host names and an IP address
SanNames == {<<"a">>, <<"b">>, <<":", ":", "1">>}
SanLists == UNION {[1..n -> SanNames] : n \in 0..MaxSan}

\* validators.IpAddress: ipaddress.ip_address accepts the value
IpAddress(value) == value = <<":", ":", "1">>

RECURSIVE join(_, _)
\* str.join: the items with the separator between them
join(sep, items) ==
    IF items = <<>> THEN <<>>
    ELSE IF Len(items) = 1 THEN items[1]
    ELSE items[1] \o sep \o join(sep, Tail(items))

\* iterating a str yields its characters, each a str of length one
Characters(s) == [i \in 1..Len(s) |-> <<s[i]>>]

RECURSIVE split(_)
\* str.split(): the maximal runs of characters other than white space
split(s) ==
    IF s = <<>> THEN <<>>
    ELSE IF Head(s) = " " THEN split(Tail(s))
    ELSE LET rest == split(Tail(s))
         IN  IF Len(s) = 1 \/ s[2] = " " THEN <<<<Head(s)>>>> \o rest
             ELSE <<<<Head(s)>> \o Head(rest)>> \o Tail(rest)

RECURSIVE san_entries(_)
\* san_to_string, lines 454-459: 'DNS: <san>, ' or 'IP: <san>, ' per entry
san_entries(san_list) ==
    IF san_list = <<>> THEN <<>>
    ELSE (IF IpAddress(Head(san_list)) THEN <<"I", "P", ":", " ">>
          ELSE <<"D", "N", "S", ":", " ">>)
         \o Head(san_list) \o <<",", " ">> \o san_entries(Tail(san_list))

\* san_to_string, line 460: the last ', ' is cut
san_to_string(san_list) ==
    IF san_list = <<>> THEN <<>>
    ELSE SubSeq(san_entries(san_list), 1, Len(san_entries(san_list)) - 2)

\* a value of the san key: a list of names, a str, or None
SanList(l) == [kind |-> "list", v |-> l]
SanStr(s) == [kind |-> "str", v |-> s]
SanNone == [kind |-> "None", v |-> <<>>]

\* a certificate or request in PEM form: the names of its subjectAltName
\* extension (`entries`) and whether its subject carries a subjectAltName
\* attribute, as create_certificate and create_certificate_signing_request
\* write one (lines 496-500, 540-543) and a certificate issued elsewhere does
\* not
Pem(entries, in_subject) == [entries |-> entries, in_subject |-> in_subject]

\* get_x509_subject, line 406: obj.get_subject().subjectAltName is the
\* attribute of the subject, None when the subject has none
get_x509_subject(obj) ==
    [san |-> IF obj.in_subject /\ obj.entries # <<>>
             THEN SanStr(san_to_string(obj.entries)) ELSE SanNone]

SanGenerated == {"CERTIFICATE_CREATE_INTERNAL", "CERTIFICATE_CREATE_CSR"}
SanImported == {"CERTIFICATE_CREATE_IMPORTED", "CERTIFICATE_CREATE_IMPORTED_CSR"}

SanInputs ==
    {[create_type |-> ct, san |-> SanList(l), entries |-> l] :
        ct \in SanGenerated, l \in SanLists}
    \cup {[create_type |-> ct, san |-> SanList(<<>>), entries |-> l,
           pem |-> Pem(l, s)] : ct \in SanImported, l \in SanLists, s \in BOOLEAN}

\* do_create, lines 806-822, for a request that passes validation
san_create(p, data) ==
    /\ pc[p] = "idle"
    /\ certs = {}
    /\ "cert_create" \notin locks
    /\ locks' = locks \cup {"cert_create"}
    /\ pc' = [pc EXCEPT ![p] = "san_strategy"]
    /\ loc' = [loc EXCEPT ![p] = [op |-> "certificate.create", data |-> data]]
    /\ UNCHANGED <<storeVars, jobs, lastAlloc, acmeVars>>

\* the strategy, lines 824-827: a generated certificate or CSR leaves
\* data['san'] as passed in (904-915, 1034-1066); an import overwrites it
\* with the subject's attribute (935-936, 961-962)
san_strategy(p) ==
    /\ pc[p] = "san_strategy"
    /\ pc' = [pc EXCEPT ![p] = "san_built"]
    /\ loc' = [loc EXCEPT ![p].data.san =
                 IF loc[p].data.create_type \in SanImported
                 THEN get_x509_subject(loc[p].data.pem).san
                 ELSE @]
    /\ UNCHANGED <<storeVars, jobs, lastAlloc, locks, acmeVars>>

\* do_create, line 829: ' '.join(data.pop('san', []) or [])
san_column(san) ==
    CASE san.kind = "list" -> join(<<" ">>, san.v)
      [] san.kind = "str" -> join(<<" ">>, Characters(san.v))
      [] san.kind = "None" -> <<>>

\* do_create, lines 829-839: the joined san is inserted with the row
san_insert(p) ==
    /\ pc[p] = "san_built"
    /\ certs' = certs \cup {[id |-> certNext, create_type |-> loc[p].data.create_type,
                             entries |-> loc[p].data.entries,
                             san |-> san_column(loc[p].data.san)]}
    /\ certNext' = certNext + 1
    /\ pc' = [pc EXCEPT ![p] = "notify"]
    /\ UNCHANGED <<cas, caNext, jobs, lastAlloc, loc, locks, acmeVars>>

\* cert_extend, lines 251-252: (cert.pop('san', '') or '').split()
san_view(cert) == [cert EXCEPT !.san = split(cert.san)]

\* certificate.query of one row
san_query(p, id) ==
    /\ pc[p] = "idle"
    /\ \E r \in certs : r.id = id
    /\ pc' = [pc EXCEPT ![p] = "san_read"]
    /\ loc' = [loc EXCEPT ![p] = [op |-> "certificate.query",
                                  view |-> san_view(CHOOSE r \in certs : r.id = id)]]
    /\ UNCHANGED <<storeVars, jobs, lastAlloc, locks, acmeVars>>

san_return(p) ==
    /\ pc[p] = "san_read"
    /\ pc' = [pc EXCEPT ![p] = "idle"]
    /\ loc' = [loc EXCEPT ![p] = Idle]
    /\ UNCHANGED <<storeVars, jobs, lastAlloc, locks, acmeVars>>

NextSan ==
    \/ \E data \in SanInputs : san_create("create1", data)
    \/ san_strategy("create1")
    \/ san_insert("create1")
    \/ service_start("create1")
    \/ \E r \in certs : san_query("query", r.id)
    \/ san_return("query")

SpecSan == Init /\ [][NextSan]_vars

\* C28: for every creation strategy the san list of the view equals the
\* subject alternative names of the record: the names of the request for a
\* generated certificate or CSR, the names in the PEM for an imported one
C28_SanRoundTrip ==
    pc["query"] = "san_read" => loc["query"].view.san = loc["query"].view.entries

\* the same for the generated strategies alone
GeneratedSanRoundTrip ==
    (pc["query"] = "san_read" /\ loc["query"].view.create_type \in SanGenerated)
        => loc["query"].view.san = loc["query"].view.entries

(***************************************************************************)
(* CA_CREATE_INTERNAL step by step: the random serial, the self-signed     *)
(* certificate and the stored row                                          *)
(***************************************************************************)

\* values of random.getrandbits(24): both ends of the range and a few between
Rand24 == {0, 1, 2, 9, 2^24 - 1}

SubjectKeys == {"country", "state", "city", "organization", "common", "email"}

CaInternalInputs ==
    {[create_type |-> "CA_CREATE_INTERNAL", name |-> <<"a">>, key_length |-> 2048,
      country |-> c, state |-> "CA", city |-> "San Jose", organization |-> o,
      common |-> cn, email |-> "ca@example.com"] :
        c \in {"US", "DK"}, o \in {"iX", "Example"},
        cn \in {"ca.example.com", "root.example.com"}}

\* get_cert_info_from_data, lines 45-48: the keys creation reads, None for
\* an absent one
get_cert_info_from_data(data) ==
    [k \in SubjectKeys \cup {"key_length", "serial"} |->
        IF k \in DOMAIN data THEN data[k] ELSE NoSerial]

\* create_certificate, lines 489-505: the subject is filled from cert_info
\* and a serial that is not None is set (an X509 object starts with serial 0)
create_certificate(cert_info) ==
    [subject |-> [C |-> cert_info.country, ST |-> cert_info.state, L |-> cert_info.city,
                  O |-> cert_info.organization, CN |-> cert_info.common,
                  emailAddress |-> cert_info.email],
     serial |-> IF cert_info.serial # NoSerial THEN cert_info.serial ELSE 0]

\* create_self_signed_CA, lines 1247-1260: cert.set_serial_number(serial or 0o1)
create_self_signed_CA(cert_info) ==
    [create_certificate(cert_info) EXCEPT
        !.serial = IF cert_info.serial \in {NoSerial, 0} THEN 1 ELSE cert_info.serial]

\* do_create of certificateauthority, lines 1283-1293, for a request that
\* passes validation
ca_internal_create(p, data) ==
    /\ pc[p] = "idle"
    /\ cas = {}
    /\ pc' = [pc EXCEPT ![p] = "ca_internal"]
    /\ loc' = [loc EXCEPT ![p] = [op |-> "certificateauthority.create", data |-> data]]
    /\ UNCHANGED <<storeVars, jobs, lastAlloc, locks, acmeVars>>

\* the strategy is looked up by data.pop('create_type'), line 1293;
\* __create_internal, lines 1497-1507
ca_create_internal(p, rand) ==
    /\ pc[p] = "ca_internal"
    /\ LET data == [k \in DOMAIN loc[p].data \ {"create_type"} |-> loc[p].data[k]]
           cert_info == [get_cert_info_from_data(data) EXCEPT !.serial = rand]
           cert == create_self_signed_CA(cert_info)
       IN  loc' = [loc EXCEPT ![p].data =
                     [type |-> CA_TYPE_INTERNAL, certificate |-> cert,
                      privatekey |-> TRUE, serial |-> cert_info.serial] @@ data]
    /\ pc' = [pc EXCEPT ![p] = "ca_internal_built"]
    /\ UNCHANGED <<storeVars, jobs, lastAlloc, locks, acmeVars>>

\* do_create, lines 1300-1307: datastore.insert of the data
ca_internal_insert(p) ==
    /\ pc[p] = "ca_internal_built"
    /\ cas' = cas \cup {[id |-> caNext, signedby |-> NoId] @@ loc[p].data}
    /\ caNext' = caNext + 1
    /\ pc' = [pc EXCEPT ![p] = "notify"]
    /\ UNCHANGED <<certs, certNext, jobs, lastAlloc, loc, locks, acmeVars>>

NextCaInternal ==
    \/ \E data \in CaInternalInputs : ca_internal_create("cacreate1", data)
    \/ \E rand \in Rand24 : ca_create_internal("cacreate1", rand)
    \/ ca_internal_insert("cacreate1")
    \/ service_start("cacreate1")

SpecCaInternal == Init /\ [][NextCaInternal]_vars

\* the subject of the stored certificate is the one the request gave
SubjectAsPassed(r) ==
    r.certificate.subject =
        [C |-> r.country, ST |-> r.state, L |-> r.city, O |-> r.organization,
         CN |-> r.common, emailAddress |-> r.email]

\* C29: a CA made by the internal strategy stores the serial that its
\* certificate carries, for every 24-bit value, and the subject of the
\* certificate is the one passed in
C29_StoredSerialIsCertSerial ==
    \A r \in cas : r.serial = r.certificate.serial /\ SubjectAsPassed(r)

(***************************************************************************)
(* certificate.update: what do_update hands to datastore.update            *)
(***************************************************************************)

\* stored certificates with a name: a CSR whose blob does not load, a
\* certificate signed by CA 1, an imported one and an ACME-issued one
UpdateRows ==
    {[name |-> <<"e">>, csr_ok |-> FALSE] @@
        CertRow(1, CERT_TYPE_CSR, NoSerial, NoId, FALSE, "a.example.com", <<>>),
     [name |-> <<"a">>] @@ CertRow(2, CERT_TYPE_INTERNAL, 8, 1, TRUE, "a.example.com",
                                   <<"b.example.com">>),
     [name |-> <<"b">>] @@ CertRow(3, CERT_TYPE_EXISTING, 7, NoId, TRUE, "a.example.com", <<>>),
     [name |-> <<"c">>] @@
        [CertRow(4, CERT_TYPE_EXISTING, 11, NoId, TRUE, "a.example.com", <<>>)
            EXCEPT !.acme = 1, !.CSR = <<"a.example.com">>,
                   !.domains_authenticators = [d \in {"a.example.com"} |-> 1],
                   !.expire = 1, !.renew_days = 2, !.acme_uri = 11, !.chain = TRUE]}

UpdateNames == {<<"a">>, <<"d">>, <<"e">>}

InitUpdate ==
    /\ cas = {CARow(1, CA_TYPE_INTERNAL, 7, NoId, TRUE)}
    /\ certs \in SUBSET UpdateRows \ {{}}
    /\ caNext = 2
    /\ certNext = 5
    /\ jobs = <<>>
    /\ lastAlloc = NoAlloc
    /\ pc = [p \in Procs |-> "idle"]
    /\ loc = [p \in Procs |-> Idle]
    /\ locks = {}
    /\ regs = {[id |-> 1, directory |-> "https://acme.test/directory"]}
    /\ regNext = 2
    /\ now = 0

\* CertificateService.do_update, lines 1077-1086: the job takes lock
\* cert_update; old is the view _get_instance returns, new a copy of it
\* updated with the data
certificate_do_update(p, id, name) ==
    /\ pc[p] = "idle"
    /\ "cert_update" \notin locks
    /\ \E r \in certs : r.id = id
    /\ locks' = locks \cup {"cert_update"}
    /\ LET row == CHOOSE r \in certs : r.id = id
           old == cert_extend(datastore_query_row(row))
       IN  IF "raised" \in DOMAIN old
           THEN /\ pc' = [pc EXCEPT ![p] = "raised"]
                /\ loc' = [loc EXCEPT ![p] = [op |-> "certificate.update",
                                              raised |-> {old.raised}]]
           ELSE /\ pc' = [pc EXCEPT ![p] = "update_validate"]
                /\ loc' = [loc EXCEPT ![p] =
                             [op |-> "certificate.update",
                              datastore |-> "system.certificate", id |-> id, row |-> row,
                              old |-> old, data |-> [name |-> name],
                              new |-> [old EXCEPT !.name = name], raised |-> {}]]
    /\ UNCHANGED <<storeVars, jobs, lastAlloc, acmeVars>>

\* the persistence collaborator's update: the columns of the record that the
\* data names take its values, san as the one string it is kept as
datastore_update_row(row, data) ==
    [k \in DOMAIN row |->
        IF k \notin DOMAIN data THEN row[k]
        ELSE IF k = "san" THEN data.san[2] ELSE data[k]]

\* do_update, lines 1097-1104: new['san'] is joined and datastore.update is
\* called with the whole of new
certificate_update_write(p) ==
    /\ pc[p] = "update_write"
    /\ LET new == [loc[p].new EXCEPT !.san = <<"str", @[2]>>]
       IN  /\ loc' = [loc EXCEPT ![p].new = new]
           /\ certs' = {IF r.id = loc[p].id THEN datastore_update_row(r, new) ELSE r :
                           r \in certs}
    /\ pc' = [pc EXCEPT ![p] = "notify"]
    /\ UNCHANGED <<cas, caNext, certNext, jobs, lastAlloc, locks, acmeVars>>

NextUpdate ==
    \/ \E r \in certs, name \in UpdateNames : certificate_do_update("update", r.id, name)
    \/ update_validate("update")
    \/ certificate_update_write("update")
    \/ service_start("update")
    \/ job_raise("update")

SpecUpdate == InitUpdate /\ [][NextUpdate]_vars

\* C30: an update changes at most the name: every other column of the record
\* is afterwards what it was, and what is handed to the store to write names
\* no attribute outside the record's columns
C30_UpdateWritesNameOnly ==
    pc["update"] = "notify" =>
        LET before == loc["update"].row
            after == CHOOSE r \in certs : r.id = loc["update"].id
        IN  /\ \A k \in DOMAIN before \ {"name"} : after[k] = before[k]
            /\ DOMAIN after = DOMAIN before
            /\ DOMAIN loc["update"].new \subseteq DOMAIN before

\* the columns of the record other than name are left as they were
UpdateKeepsColumns ==
    pc["update"] = "notify" =>
        LET before == loc["update"].row
            after == CHOOSE r \in certs : r.id = loc["update"].id
        IN  /\ \A k \in DOMAIN before \ {"name"} : after[k] = before[k]
            /\ after.name = loc["update"].data.name

(***************************************************************************)
(* The chain of a record whose chain flag is false                         *)
(***************************************************************************)

AllRows == cas \cup certs

\* the issuer label that the kind of a record calls for
KindLabel(r) ==
    CASE r.type \in {CA_TYPE_EXISTING, CERT_TYPE_EXISTING} -> <<"label", "external">>
      [] r.type = CA_TYPE_INTERNAL -> <<"label", "self-signed">>
      [] r.type = CERT_TYPE_CSR -> <<"label", "external - signature pending">>
      [] OTHER -> <<"signedby", r.signedby>>

RECURSIVE SigningPath(_, _)
\* the records from r up its signing CAs, r first, ending at the first whose
\* issuer is a terminal label or absent
SigningPath(r, depth) ==
    IF KindLabel(r)[1] = "label" \/ r.signedby = NoId \/ depth = 0 THEN <<r>>
    ELSE <<r>> \o SigningPath(CHOOSE ca \in cas : ca.id = r.signedby, depth - 1)

\* every record of the path holds a certificate that parses
PathParses(path) ==
    \A i \in DOMAIN path :
        Blob(path[i]) # <<>> /\ crypto_load_certificate(Blob(path[i])) # "Error"

\* the view is that of the signing path of its record, leaf first, and its
\* issuer is the label of the record's kind
ChainIsSigningPath(row, view) ==
    LET path == SigningPath(row, Cardinality(cas))
    IN  /\ view.issuer = KindLabel(row)
        /\ Len(view.chain_list) = Len(path)
        /\ \A i \in DOMAIN path :
              view.chain_list[i] = crypto_load_certificate(Blob(path[i]))

\* C31 as stated: for every record whose chain flag is false the chain_list is
\* the signing path, leaf to root, its length the number of records on it
C31_ChainListIsPath ==
    \A p \in Procs :
        (pc[p] = "read" /\ "raised" \notin DOMAIN loc[p].view /\ ~loc[p].row.chain)
            => ChainIsSigningPath(loc[p].row, loc[p].view)

\* C31: for a record whose chain flag is false the issuer is the label of its
\* kind, and when every record of its signing path holds a certificate that
\* parses, chain_list is those certificates, leaf to root, one per record
C31_ChainListIsParsedPath ==
    \A p \in Procs :
        (pc[p] = "read" /\ "raised" \notin DOMAIN loc[p].view /\ ~loc[p].row.chain)
            => /\ loc[p].view.issuer = KindLabel(loc[p].row)
               /\ PathParses(SigningPath(loc[p].row, Cardinality(cas)))
                    => ChainIsSigningPath(loc[p].row, loc[p].view)

\* the certificate under the intermediate CA has been read: three links
C31_Witness ==
    /\ pc["query"] = "read"
    /\ "raised" \notin DOMAIN loc["query"].view
    /\ loc["query"].row.type = CERT_TYPE_INTERNAL
    /\ Len(loc["query"].view.chain_list) = 3
    /\ Len(SigningPath(loc["query"].row, Cardinality(cas))) = 3

(***************************************************************************)
(* get_serial_for_certificate asked about each CA of a signing tree        *)
(***************************************************************************)

MaxIssued == 2      \* certificates inserted with an allocated serial

\* CA 1 is a root; CA 2 is a root or under 1; CA 3 is a root or under 1 or 2
TreeShapes ==
    {[i \in {1, 2, 3} |-> IF i = 1 THEN NoId ELSE IF i = 2 THEN s2 ELSE s3] :
        s2 \in {NoId, 1}, s3 \in {NoId, 1, 2}}

\* certificates already issued under the CAs
TreeCerts ==
    {CertRow(1, CERT_TYPE_INTERNAL, 12, 1, TRUE, "a.example.com", <<>>),
     CertRow(2, CERT_TYPE_INTERNAL, 5, 2, TRUE, "a.example.com", <<>>),
     CertRow(3, CERT_TYPE_INTERNAL, 14, 3, TRUE, "a.example.com", <<>>)}

InitTree ==
    /\ \E signedby \in TreeShapes :
          cas = {CARow(id, IF signedby[id] = NoId THEN CA_TYPE_INTERNAL
                           ELSE CA_TYPE_INTERMEDIATE,
                       CASE id = 1 -> 9 [] id = 2 -> 3 [] id = 3 -> 7,
                       signedby[id], TRUE) : id \in {1, 2, 3}}
    /\ certs \in SUBSET TreeCerts
    /\ caNext = 4
    /\ certNext = 4
    /\ jobs = <<>>
    /\ lastAlloc = NoAlloc
    /\ pc = [p \in Procs |-> "idle"]
    /\ loc = [p \in Procs |-> Idle]
    /\ locks = {}
    /\ regs = {}
    /\ regNext = 1
    /\ now = 0

\* get_serial_for_certificate(ca_id), lines 1197-1241, called by p; the
\* stored rows it read are kept beside the value it returned
serial_call(p, ca_id) ==
    /\ pc[p] = "idle"
    /\ \E r \in cas : r.id = ca_id
    /\ pc' = [pc EXCEPT ![p] = "serial"]
    /\ loc' = [loc EXCEPT ![p] =
                 [op |-> "get_serial_for_certificate", ca |-> ca_id,
                  root |-> root_of(ca_id), store |-> <<cas, certs>>,
                  serial |-> get_serial_for_certificate(ca_id)]]
    /\ UNCHANGED <<storeVars, jobs, lastAlloc, locks, acmeVars>>

\* __create_internal, lines 1057-1066, and the insert of do_create: the
\* certificate is stored under the CA with the serial that was returned
serial_insert(p) ==
    /\ pc[p] = "serial"
    /\ certNext < 4 + MaxIssued
    /\ certs' = certs \cup {CertRow(certNext, CERT_TYPE_INTERNAL, loc[p].serial, loc[p].ca,
                                    TRUE, "a.example.com", <<>>)}
    /\ certNext' = certNext + 1
    /\ pc' = [pc EXCEPT ![p] = "idle"]
    /\ loc' = [loc EXCEPT ![p] = Idle]
    /\ UNCHANGED <<cas, caNext, jobs, lastAlloc, locks, acmeVars>>

\* the caller drops the value
serial_return(p) ==
    /\ pc[p] = "serial"
    /\ pc' = [pc EXCEPT ![p] = "idle"]
    /\ loc' = [loc EXCEPT ![p] = Idle]
    /\ UNCHANGED <<storeVars, jobs, lastAlloc, locks, acmeVars>>

NextTree ==
    \/ \E p \in CertJobs, r \in cas : serial_call(p, r.id)
    \/ \E p \in CertJobs : serial_insert(p)
    \/ \E p \in CertJobs : serial_return(p)

SpecTree == InitTree /\ [][NextTree]_vars

\* C32: two calls of get_serial_for_certificate that read the same stored
\* rows, about CAs of the same root's tree (the same CA included), return
\* the same value
C32_SerialDependsOnRoot ==
    \A p, q \in CertJobs :
        (/\ pc[p] = "serial" /\ pc[q] = "serial"
         /\ loc[p].store = loc[q].store
         /\ loc[p].root = loc[q].root)
            => loc[p].serial = loc[q].serial

\* one call was about the root and one about the CA two levels below it,
\* with certificates stored in the tree
C32_Witness ==
    /\ pc["create1"] = "serial" /\ pc["create2"] = "serial"
    /\ loc["create1"].store = loc["create2"].store
    /\ loc["create1"].ca = 1 /\ loc["create2"].ca = 3
    /\ loc["create2"].root = 1
    /\ \E ca \in cas : ca.id = 3 /\ ca.signedby = 2
    /\ \E c \in certs : c.signedby = 2

(***************************************************************************)
(* A TXT record that the DNS authenticator reports as not published        *)
(***************************************************************************)

\* C33: when update_txt_record returns false for a domain, the challenge of
\* that domain is not answered and the attempt does not go on to
\* poll_and_finalize
C33_FalseStatusFailsDomain ==
    \A p \in Procs : InIssue(p) =>
        LET log == loc[p].log
        IN  \A i \in DOMAIN log :
              (log[i][1] = "update_txt_record" /\ log[i][3] = "false") =>
                  \A j \in (i + 1)..Len(log) :
                      /\ ~(log[j][1] = "answer_challenge" /\ log[j][2] = log[i][2])
                      /\ log[j][1] # "poll_and_finalize"

(***************************************************************************)
(* The progress a job reports.  A percentage is a fraction <<n, d>> in     *)
(* lowest terms, so that the divisions of the code are exact.              *)
(***************************************************************************)

MaxAuths == 2        \* authorizations of one order
MaxRecords == 2      \* ACME records of one renewal run

RECURSIVE Gcd(_, _)
Gcd(a, b) == IF b = 0 THEN a ELSE Gcd(b, a % b)

Frac(n, d) == <<n \div Gcd(n, d), d \div Gcd(n, d)>>
Whole(n) == <<n, 1>>
Plus(a, b) == Frac(a[1] * b[2] + b[1] * a[2], a[2] * b[2])
Minus(a, b) == Frac(a[1] * b[2] - b[1] * a[2], a[2] * b[2])
Times(a, k) == Frac(a[1] * k, a[2])
Over(a, k) == Frac(a[1], a[2] * k)
AtMost(a, b) == a[1] * b[2] <= b[1] * a[2]

\* handle_authorizations, line 670:
\* (progress * 4) - progress - (progress * 4 / 5)
max_progress(progress) ==
    Minus(Minus(Times(progress, 4), progress), Over(Times(progress, 4), 5))

\* the ACME records a renewal run finds: whether each is due and how many
\* authorizations its order holds
RenewalRuns ==
    UNION {[1..n -> [due : BOOLEAN, auths : 1..MaxAuths]] : n \in 0..MaxRecords}

\* do_create, line 822, then __create_acme_certificate, line 869:
\* issue_certificate is called with progress 25
create_progress(p, auths) ==
    /\ pc[p] = "idle"
    /\ pc' = [pc EXCEPT ![p] = "progress_issue"]
    /\ loc' = [loc EXCEPT ![p] =
                 [op |-> "CERTIFICATE_CREATE_ACME", reports |-> <<Whole(10)>>,
                  progress |-> Whole(25), max |-> Whole(0), auths |-> auths, k |-> 0]]
    /\ UNCHANGED <<storeVars, jobs, lastAlloc, locks, acmeVars>>

\* renew_certs, line 728: progress = 0 before the loop
renew_progress(p, run) ==
    /\ pc[p] = "idle"
    /\ pc' = [pc EXCEPT ![p] = "progress_loop"]
    /\ loc' = [loc EXCEPT ![p] =
                 [op |-> "renew_certs", reports |-> <<>>, certs |-> run, i |-> 0,
                  total |-> Whole(0), progress |-> Whole(0), max |-> Whole(0), auths |-> 0,
                  k |-> 0]]
    /\ UNCHANGED <<storeVars, jobs, lastAlloc, locks, acmeVars>>

\* renew_certs, lines 729-744 and 759: the share of the next record is added;
\* a record that is due goes to issue_certificate with progress / 4, one
\* that is not is reported at once
renew_progress_next(p) ==
    /\ pc[p] = "progress_loop"
    /\ loc[p].i < Len(loc[p].certs)
    /\ LET i == loc[p].i + 1
           total == Plus(loc[p].total, Frac(100, Len(loc[p].certs)))
       IN  IF loc[p].certs[i].due
           THEN /\ pc' = [pc EXCEPT ![p] = "progress_issue"]
                /\ loc' = [loc EXCEPT ![p].i = i, ![p].total = total,
                                      ![p].progress = Over(total, 4),
                                      ![p].auths = loc[p].certs[i].auths, ![p].k = 0]
           ELSE /\ pc' = pc
                /\ loc' = [loc EXCEPT ![p].i = i, ![p].total = total,
                                      ![p].reports = Append(@, total)]
    /\ UNCHANGED <<storeVars, jobs, lastAlloc, locks, acmeVars>>

\* issue_certificate, lines 644-646: the progress it was given is reported
\* when the order is placed; handle_authorizations, line 670, computes
\* max_progress from it
order_progress(p) ==
    /\ pc[p] = "progress_issue"
    /\ pc' = [pc EXCEPT ![p] = "progress_authorizations"]
    /\ loc' = [loc EXCEPT ![p].reports = Append(@, loc[p].progress),
                          ![p].max = max_progress(loc[p].progress)]
    /\ UNCHANGED <<storeVars, jobs, lastAlloc, locks, acmeVars>>

\* handle_authorizations, lines 675 and 713-716: per authorization
\* max_progress / len(order.authorizations) is added and reported
authorization_progress(p) ==
    /\ pc[p] = "progress_authorizations"
    /\ loc[p].k < loc[p].auths
    /\ LET progress == Plus(loc[p].progress, Over(loc[p].max, loc[p].auths))
       IN  loc' = [loc EXCEPT ![p].progress = progress, ![p].k = @ + 1,
                              ![p].reports = Append(@, progress)]
    /\ UNCHANGED <<storeVars, jobs, lastAlloc, pc, locks, acmeVars>>

\* the order is final: __create_acme_certificate reports 95 and do_create
\* 100 (lines 871, 847); renew_certs reports the progress of the run (759)
final_progress(p) ==
    /\ pc[p] = "progress_authorizations"
    /\ loc[p].k = loc[p].auths
    /\ IF loc[p].op = "renew_certs"
       THEN /\ pc' = [pc EXCEPT ![p] = "progress_loop"]
            /\ loc' = [loc EXCEPT ![p].reports = Append(@, loc[p].total)]
       ELSE /\ pc' = [pc EXCEPT ![p] = "progress_done"]
            /\ loc' = [loc EXCEPT ![p].reports = @ \o <<Whole(95), Whole(100)>>]
    /\ UNCHANGED <<storeVars, jobs, lastAlloc, locks, acmeVars>>

\* the job ends
progress_return(p) ==
    /\ \/ pc[p] = "progress_done"
       \/ pc[p] = "progress_loop" /\ loc[p].i = Len(loc[p].certs)
    /\ pc' = [pc EXCEPT ![p] = "idle"]
    /\ loc' = [loc EXCEPT ![p] = Idle]
    /\ UNCHANGED <<storeVars, jobs, lastAlloc, locks, acmeVars>>

NextProgress ==
    \/ \E auths \in 0..MaxAuths : create_progress("create1", auths)
    \/ \E run \in RenewalRuns : renew_progress("renew", run)
    \/ renew_progress_next("renew")
    \/ \E p \in {"create1", "renew"} : order_progress(p)
    \/ \E p \in {"create1", "renew"} : authorization_progress(p)
    \/ \E p \in {"create1", "renew"} : final_progress(p)
    \/ \E p \in {"create1", "renew"} : progress_return(p)

SpecProgress == Init /\ [][NextProgress]_vars

\* the reports are within 0..100 and none is below the one before it
Monotone(reports) ==
    /\ \A i \in DOMAIN reports :
          AtMost(Whole(0), reports[i]) /\ AtMost(reports[i], Whole(100))
    /\ \A i \in 1..(Len(reports) - 1) : AtMost(reports[i], reports[i + 1])

\* C34: the percentages one job reports never decrease and stay within
\* 0..100, for an ACME creation and for a renewal run
C34_ProgressMonotone ==
    \A p \in {"create1", "renew"} :
        (pc[p] # "idle" /\ "reports" \in DOMAIN loc[p]) => Monotone(loc[p].reports)

\* the same for the ACME creation alone
CreateProgressMonotone ==
    (pc["create1"] # "idle" /\ "reports" \in DOMAIN loc["create1"])
        => Monotone(loc["create1"].reports)

(***************************************************************************)
(* The signing relation over the stored records                            *)
(***************************************************************************)

RECURSIVE SignedUnder(_, _, _)
\* following signedby from CA `from`, CA `id` is met within `depth` steps
SignedUnder(from, id, depth) ==
    IF depth = 0 \/ ~\E ca \in cas : ca.id = from THEN FALSE
    ELSE LET ca == CHOOSE r \in cas : r.id = from
         IN  ca.signedby # NoId
             /\ (ca.signedby = id \/ SignedUnder(ca.signedby, id, depth - 1))

\* no CA signs itself, directly or through other CAs
Acyclic == \A ca \in cas : ~SignedUnder(ca.id, ca.id, Cardinality(cas))

\* a row that stays keeps its signedby; a row that is added refers to no CA
\* or to one that was inserted before it
SignedbySetAtCreation ==
    /\ \A r \in cas, s \in cas' : r.id = s.id => r.signedby = s.signedby
    /\ \A r \in certs, s \in certs' : r.id = s.id => r.signedby = s.signedby
    /\ \A s \in cas' : (\A r \in cas : r.id # s.id) =>
                          s.signedby = NoId \/ s.signedby < s.id
    /\ \A s \in certs' : (\A r \in certs : r.id # s.id) =>
                          s.signedby = NoId \/ s.signedby < caNext

\* C35: through creates, updates and deletes the signing relation stays
\* acyclic: signedby is set when a record is created, to a CA created before
\* it, and no later step changes it
C35_SigningAcyclic ==
    []Acyclic /\ [][SignedbySetAtCreation]_vars

\* an intermediate CA under a CA that has since been renamed
C35_Witness ==
    \E ca \in cas, parent \in cas :
        /\ ca.signedby = parent.id
        /\ parent.name = <<"d">>
        /\ pc["cacreate1"] = "idle" /\ pc["cacreate2"] = "idle"

(***************************************************************************)
(* A create and a rename under way at once                                 *)
(***************************************************************************)

\* one certificate and one CA are stored, under names of their own
InitRace ==
    /\ cas = {[name |-> <<"d">>] @@ CARow(1, CA_TYPE_INTERNAL, 7, NoId, TRUE)}
    /\ certs = {[name |-> <<"e">>] @@
                  CertRow(1, CERT_TYPE_CSR, NoSerial, NoId, FALSE, "a.example.com", <<>>)}
    /\ caNext = 2
    /\ certNext = 2
    /\ jobs = <<>>
    /\ lastAlloc = NoAlloc
    /\ pc = [p \in Procs |-> "idle"]
    /\ loc = [p \in Procs |-> Idle]
    /\ locks = {}
    /\ regs = {}
    /\ regNext = 1
    /\ now = 0

RaceNames == {<<"a">>, <<"b">>}

\* a certificate create job and a certificate rename job, two CA calls
NextRace ==
    \/ \E n \in RaceNames :
          /\ certNext <= MaxCerts
          /\ Running < MaxRunning
          /\ do_create("create1", "system.certificate",
                       CreateData(n, "CERTIFICATE_CREATE_CSR", "none", "none", 2048,
                                  NoId, NoId))
    \/ \E n \in RaceNames :
          /\ caNext <= MaxCAs
          /\ Running < MaxRunning
          /\ do_create("cacreate1", "system.certificateauthority",
                       CreateData(n, "CA_CREATE_INTERNAL", "none", "none", 2048,
                                  NoId, NoId))
    \/ \E p \in {"create1", "cacreate1"} : create_validate(p)
    \/ \E p \in {"create1", "cacreate1"} : create_strategy(p, TRUE)
    \/ \E p \in {"create1", "cacreate1"} : create_insert(p)
    \/ \E r \in certs, n \in RaceNames :
          Running < MaxRunning /\ do_update("update", "system.certificate", r.id, n)
    \/ \E r \in cas, n \in RaceNames :
          Running < MaxRunning
              /\ do_update("cacreate2", "system.certificateauthority", r.id, n)
    \/ \E p \in {"update", "cacreate2"} : update_validate(p)
    \/ \E p \in {"update", "cacreate2"} : update_write(p)
    \/ \E p \in {"create1", "cacreate1", "update", "cacreate2"} : job_raise(p)
    \/ \E p \in {"create1", "cacreate1", "update", "cacreate2"} : service_start(p)

SpecRace == InitRace /\ [][NextRace]_vars

\* C36: however a certificate create interleaves with a certificate rename,
\* and a CA create with a CA rename, no two records of one store end up with
\* the same name
C36_NoDuplicateNames ==
    /\ \A r1, r2 \in certs : r1.name = r2.name => r1.id = r2.id
    /\ \A r1, r2 \in cas : r1.name = r2.name => r1.id = r2.id

(***************************************************************************)
(* A rename next to the renewal of the same record                         *)
(***************************************************************************)

\* one ACME-managed certificate is stored, it is due, and the authenticator
\* its mapping names exists
InitLost ==
    /\ cas = {CARow(1, CA_TYPE_INTERNAL, 7, NoId, TRUE)}
    /\ certs = {r \in UpdateRows : r.acme # NoId}
    /\ caNext = 2
    /\ certNext = 5
    /\ jobs = <<>>
    /\ lastAlloc = NoAlloc
    /\ pc = [p \in Procs |-> "idle"]
    /\ loc = [p \in Procs |-> Idle]
    /\ locks = {}
    /\ regs = {[id |-> 1, directory |-> "https://acme.test/directory"]}
    /\ regNext = 2
    /\ now = 0

\* the renewal job and the rename job
NextLost ==
    \/ renew_certs("renew")
    \/ renew_next("renew")
    \/ issue_validate("renew")
    \/ get_acme_lookup("renew")
    \/ \E ok \in BOOLEAN : new_order("renew", ok)
    \/ handle_authorizations("renew")
    \/ authorization_no_challenge("renew")
    \/ update_txt_record("renew", "true")
    \/ answer_challenge("renew", TRUE)
    \/ handle_authorizations_return("renew")
    \/ poll_and_finalize("renew")
    \/ \E o \in FinalizeOutcomes, s \in ReissueSerials, l \in Lifetimes :
            finalize_result("renew", o, s, l)
    \/ renew_update("renew")
    \/ renew_done("renew")
    \/ \E r \in certs, name \in UpdateNames : certificate_do_update("update", r.id, name)
    \/ update_validate("update")
    \/ certificate_update_write("update")
    \/ service_start("update")
    \/ \E p \in {"renew", "update"} : job_raise(p)

SpecLost == InitLost /\ [][NextLost]_vars

\* C37: the write of a rename leaves the certificate body, order URI, expiry
\* and chain flag of the record as they are stored, so a renewal that wrote
\* them since the rename read the record is not lost
C37_RenameKeepsRenewal ==
    [][pc["update"] = "update_write" /\ pc'["update"] = "notify" =>
          \A r \in certs : \A s \in certs' :
              s.id = r.id => \A k \in RenewedColumns : s[k] = r[k]]_vars

====
